---- MODULE Spec2Model ----
(***************************************************************************)
(* Session lifecycle of the cypress web toolkit: the Session entity, the   *)
(* in-memory, file and redis SessionStore implementations and their        *)
(* background GC sweeps.                                                   *)
(*                                                                         *)
(* One store is configured per server (kind); the three stores share the   *)
(* Session objects, the clock and the bookkeeping of what was saved.       *)
(* Time is an integer clock: time.Time values are points of it, a          *)
(* time.Duration is a difference of two points.                            *)
(***************************************************************************)
EXTENDS Integers, Sequences, FiniteSets, TLC

\* ------------------------------------------------------------------ bounds
NumObjs == 2        \* Session objects alive at one time
NumCalls == 2       \* store calls (Save, Get, GC sweep) in progress at one time
MaxTime == 2        \* the clock runs 0..MaxTime
MaxTimeout == 1     \* timeouts passed to Save: 1..MaxTimeout
NumThreads == 2     \* goroutines calling the methods of one Session
NumReqs == 2        \* requests inside the session middleware at one time
NumCtx == 3         \* multiValueCtx objects alive at one time

Objs == 1..NumObjs
Timeouts == 1..MaxTimeout
IDs == {"id1"}
FreshIDs == {"id2"}     \* what NewSessionID() can still generate
StoreIDs == IDs \cup FreshIDs
Keys == {"key1"}
Vals == {"value1"}
NoVal == "<absent>"
Kinds == {"mem", "file", "redis"}
Threads == 1..NumThreads
Reqs == 1..NumReqs
NoCookie == ""
\* the values of the store test: a string and a pointer to a registered struct
TestVals == {"value1", "&TestObj{123,abc}"}
\* values of the types registered with gob: a string, a TestObj struct
RegisteredVals == {"value1", "TestObj"}

\* ------------------------------------------------------------- time.Time
Before(a, b) == a < b
After(a, b) == a > b
Add(t, d) == t + d

\* --------------------------------------------------------- encoding/gob
\* An interface value travels as the registered name of its base type and
\* the encoded value: a pointer is flattened to what it points to.
GobName(v) == IF v = "value1" THEN "string" ELSE "TestObj"
GobBody(v) == IF v = "value1" THEN "value1" ELSE "{123,abc}"
GobValueIsBody(name, body) == body
GobValue(name, body) == IF name = "string" THEN body ELSE "TestObj"

EmptyData == [k \in Keys |-> NoVal]

\* Session.Serialize: the gob encoding of session.data, one entry per key
SerializeData(d) ==
    {<<k, GobName(d[k]), GobBody(d[k])>> : k \in {kk \in Keys : d[kk] # NoVal}}

\* Session.Deserialize: gob decodes into the existing map, entry by entry
DeserializeData(old, bytes) ==
    [k \in Keys |->
        IF \E e \in bytes : e[1] = k
        THEN LET e == CHOOSE x \in bytes : x[1] = k IN GobValue(e[2], e[3])
        ELSE old[k]]

\* ------------------------------------------------------------------ state
VARIABLES
    kind,       \* which SessionStore the server is configured with
    now,        \* time.Now()
    obj,        \* the Session objects: ID, IsValid, isDirty, data
    sessions,   \* inMemorySessionStore.sessions: ID -> sessionItem
    gc,         \* the GC goroutine of the in-memory / file store
    files,      \* the directory of the fileSessionStore: name -> content
    redis,      \* the keys of the redis server: key -> value and expiry
    sv,         \* per Session: the file / redis Save call it is inside of
    rd,         \* the goroutine inside fileSessionStore.Get
    saved,      \* history: what the Save calls for an ID promised so far
    last,       \* history: the call that returned in the last step
    thr,        \* the goroutines inside a Session method, statement by statement
    lk,         \* Session.lock of each Session: the writer and the readers
    taken,      \* history: who got a key's value from GetAsFlashValue
    rq,         \* the requests inside sessionHandler.ServeHTTP
    storeLock,  \* inMemorySessionStore.lock: the writer and the readers
    run,        \* the goroutines inside a call, lock operation by lock operation
    prior,      \* history: the entry the last in-memory Save found for its ID
    closing,    \* store.exitChan and the goroutines inside store.Close
    carriers,   \* the multiValueCtx objects: overlay values and parent
    pipe,       \* per request: its place in the handler chain and its context
    cmap,       \* a ConcurrentMap, its lock and the goroutines inside its methods
    skins       \* the SkinManager's lock and the goroutines inside its methods

\* the state of the components a store step leaves alone
mgrs == <<cmap, skins>>

aside == <<storeLock, run, prior, closing, carriers, pipe, mgrs>>

others == <<thr, lk, taken, rq, aside>>

vars == <<kind, now, obj, sessions, gc, files, redis, sv, rd, saved, last, others>>

FreeObj == [alloc |-> FALSE, ID |-> "", IsValid |-> FALSE, isDirty |-> FALSE,
            data |-> EmptyData]
NoItem == [ok |-> FALSE, session |-> 0, expiration |-> 0]
NoFile == [exists |-> FALSE, content |-> <<>>]
NoKey == [ok |-> FALSE, data |-> {}, expireAt |-> 0]
IdleSave == [pc |-> "idle", id |-> "", data |-> {}, timeout |-> 0,
             linked |-> FALSE, mutSince |-> FALSE]
IdleGet == [pc |-> "idle", id |-> "", conc |-> FALSE]
IdleGC == [pc |-> "idle", keysToRemove |-> {}, files |-> {}, now |-> 0, name |-> "",
           unread |-> {}]
NoSaved == [state |-> "none", deadline |-> 0, everInvalid |-> FALSE]
NoLast == [op |-> "", id |-> "", o |-> 0, res |-> "", flag |-> FALSE, aux |-> FALSE]
\* a goroutine outside the Session methods; after a call: op, key, value are
\* the call, rv and rok what it returned, snap the key's value when the
\* goroutine got the lock
IdleThread == [pc |-> "idle", op |-> "", o |-> 0, key |-> "", value |-> "",
               rv |-> "nil", rok |-> FALSE, snap |-> NoVal]
NoLock == [w |-> 0, r |-> {}]
NotTaken == [by |-> {}, written |-> FALSE]
\* the keys of the overlay (TraceActivityIDKey, SessionKey,
\* UserPrincipalKey) and a key only the base context knows
CtxKeys == {"TraceActivityID", "UserSession", "UserPrincipal"}
Nil == <<>>
\* a multiValueCtx not allocated; a context is a carrier c >= 1 or the
\* context -r the server made for request r
NoCarrier == [made |-> FALSE, values |-> [k \in CtxKeys |-> Nil], parent |-> 0]
\* request r as the server hands it to the handler chain; ret is what the
\* last withValue on its context returned
NewRequest(r) == [pc |-> "logging", ctx |-> 0 - r, ret |-> 0]

\* exitChan is open, nobody has called Close; pc of a caller: "send" at
\* store.exitChan <- true, "close" at gcTicker.Stop(), "done" returned,
\* "panic" with the statement it panicked at in at
NotClosing == [chan |-> "open",
               pc |-> [g \in Threads |-> "idle"],
               at |-> [g \in Threads |-> ""]]
\* a goroutine outside every call; inside one: at is the statement of
\* Program(op) it executes next
IdleRun == [op |-> "", o |-> 0, at |-> 0]
\* the keys of the ConcurrentMap
MapKeys == {"key1", "key3"}
\* a goroutine outside the map's methods; inside GetOrCompute: key is the
\* call's key, value and ok its local variables; ret is what its last call
\* returned, and key the key of that call if it was a Get
IdleCaller == [pc |-> "idle", key |-> "", value |-> Nil, ok |-> FALSE,
               ret |-> Nil]
\* NewConcurrentMap: no values, an unlocked lock; history: generated counts
\* the generator calls for a key since the key was last absent with no call
\* for it in flight, touched = a Delete for the key ran while a
\* GetOrCompute for it was in flight
\* NewSkinManager: no selector, an unlocked lock (w: the writer, r: the read
\* locks each goroutine holds), no goroutine inside a method; pc of a
\* goroutine inside one: the lock operation it executes next, "lock" once it
\* has called Lock() and waits in it
NewSkinManager ==
    [selector |-> FALSE,
     lock |-> [w |-> 0, r |-> [g \in Threads |-> 0]],
     call |-> [g \in Threads |-> [pc |-> "idle", op |-> "", sel |-> FALSE]]]
NewConcurrentMap ==
    [values |-> [k \in MapKeys |-> Nil], lock |-> NoLock,
     call |-> [g \in Threads |-> IdleCaller],
     generated |-> [k \in MapKeys |-> 0],
     touched |-> [k \in MapKeys |-> FALSE]]
\* a request slot: cookie is the session cookie of the request, session and
\* err the handler's variables, got the session store.Get returned, ctx the
\* session under SessionKey in the request's context, setCookie the cookie
\* set on the response, status the response status (0: none written);
\* history: mutated = the pipeline called SetValue or GetAsFlashValue on the
\* request's session
IdleReq == [pc |-> "idle", cookie |-> NoCookie, session |-> 0, err |-> "nil",
            got |-> 0, ctx |-> 0, setCookie |-> NoCookie, status |-> 0,
            mutated |-> FALSE]

\* what the last step's call returned. Save: flag = the session's IsValid,
\* aux = the session was mutated after Save took its snapshot. Get: o = the
\* session returned, flag = the stored expiration was before now when Get
\* looked, aux = a Save for the ID returned while the Get was running.
\* SetValue, GetAsFlashValue: flag = the key existed.
Returned(op, id, o, res, flag, aux) ==
    [op |-> op, id |-> id, o |-> o, res |-> res, flag |-> flag, aux |-> aux]

Init ==
    /\ kind \in Kinds
    /\ now = 0
    /\ obj = [o \in Objs |-> FreeObj]
    /\ sessions = [i \in StoreIDs |-> NoItem]
    /\ gc = IdleGC
    /\ files = [i \in StoreIDs |-> NoFile]
    /\ redis = [i \in StoreIDs |-> NoKey]
    /\ sv = [o \in Objs |-> IdleSave]
    /\ rd = IdleGet
    /\ saved = [i \in StoreIDs |-> NoSaved]
    /\ last = NoLast
    /\ thr = [g \in Threads |-> IdleThread]
    /\ lk = [o \in Objs |-> NoLock]
    /\ taken = [o \in Objs |-> [k \in Keys |-> NotTaken]]
    /\ rq = [r \in Reqs |-> IdleReq]
    /\ storeLock = NoLock
    /\ run = [g \in Threads |-> IdleRun]
    /\ prior = NoItem
    /\ closing = NotClosing
    /\ carriers = [c \in 1..NumCtx |-> NoCarrier]
    /\ pipe = [r \in Reqs |-> NewRequest(r)]
    /\ cmap = NewConcurrentMap
    /\ skins = NewSkinManager

\* the clock advances
Tick ==
    /\ now < MaxTime
    /\ now' = now + 1
    /\ last' = NoLast
    /\ UNCHANGED <<others, kind, obj, sessions, gc, files, redis, sv, rd, saved>>

\* the store calls in progress: Saves, the Get, the GC sweep
InFlight ==
    Cardinality({o \in Objs : sv[o].pc # "idle"})
    + (IF rd.pc # "idle" THEN 1 ELSE 0) + (IF gc.pc # "idle" THEN 1 ELSE 0)

\* a goroutine is there to make one more store call
CanCall == InFlight < NumCalls

\* ------------------------------------------------------------- Session
\* Session.lock is write-locked: fileSessionStore.Save holds it from
\* session.lock.Lock() to its return
Locked(o) == sv[o].pc \in {"save_open", "save_write"}

InUse(o) ==
    \/ \E i \in StoreIDs : sessions[i].ok /\ sessions[i].session = o
    \/ sv[o].pc # "idle"

\* NewSession(id): a valid, clean session with an empty mapping
NewSession(id) ==
    [alloc |-> TRUE, ID |-> id, IsValid |-> TRUE, isDirty |-> FALSE,
     data |-> EmptyData]

FreeObjs == {o \in Objs : ~obj[o].alloc}
NextFree == CHOOSE o \in FreeObjs : \A x \in FreeObjs : o <= x

\* a caller constructs a session: the middleware for a request without a
\* usable cookie, createCaptcha for a caller-given id
CallNewSession(id) ==
    /\ FreeObjs # {}
    /\ obj' = [obj EXCEPT ![NextFree] = NewSession(id)]
    /\ last' = NoLast
    /\ UNCHANGED <<others, kind, now, sessions, gc, files, redis, sv, rd, saved>>

\* the last holder of a session drops it (its request ended)
Release(o) ==
    /\ obj[o].alloc
    /\ ~InUse(o)
    /\ obj' = [obj EXCEPT ![o] = FreeObj]
    /\ last' = NoLast
    /\ UNCHANGED <<others, kind, now, sessions, gc, files, redis, sv, rd, saved>>

\* a handler logs the user out: session.IsValid = false
SetInvalid(o) ==
    /\ obj[o].alloc
    /\ obj[o].IsValid
    /\ obj' = [obj EXCEPT ![o].IsValid = FALSE]
    /\ last' = NoLast
    /\ UNCHANGED <<others, kind, now, sessions, gc, files, redis, sv, rd, saved>>

\* SetValue, GetValue and GetAsFlashValue: value, ok := session.data[key]
Existed(o, key) == obj[o].data[key] # NoVal

\* a mutation of o lands after the snapshot of the Save o is inside of
NoteMutation(o) ==
    [sv EXCEPT ![o].mutSince = (sv[o].pc # "idle")]

\* Session.SetValue
SetValueBody(o, key, value) ==
    /\ obj[o].alloc
    /\ ~Locked(o)
    /\ obj' = [obj EXCEPT ![o].data[key] = value,
                          ![o].isDirty = TRUE]
    /\ sv' = NoteMutation(o)
    /\ UNCHANGED <<kind, now, sessions, gc, files, redis, rd, saved>>

SetValue(o, key, value) == SetValueBody(o, key, value) /\ UNCHANGED others

\* Session.GetValue
GetValue(o, key) ==
    /\ obj[o].alloc
    /\ ~Locked(o)
    /\ UNCHANGED <<others, kind, now, obj, sessions, gc, files, redis, sv, rd, saved>>

FlashDirtyOnlyIfExisted(o, ok) == obj[o].isDirty \/ ok

FlashDirty(o, ok) == TRUE

\* Session.GetAsFlashValue
GetAsFlashValueBody(o, key) ==
    LET ok == Existed(o, key) IN
    /\ obj[o].alloc
    /\ ~Locked(o)
    /\ obj' = [obj EXCEPT ![o].data[key] = NoVal,
                          ![o].isDirty = FlashDirty(o, ok)]
    /\ sv' = NoteMutation(o)
    /\ UNCHANGED <<kind, now, sessions, gc, files, redis, rd, saved>>

GetAsFlashValue(o, key) == GetAsFlashValueBody(o, key) /\ UNCHANGED others

\* Session.NeedSave
NeedSave(o) == obj[o].isDirty

\* a handler calls a Session method; the history of the store calls takes
\* no note of it
CallSetValue(o, key, value) == SetValue(o, key, value) /\ last' = NoLast
CallGetValue(o, key) == GetValue(o, key) /\ last' = NoLast
CallGetAsFlashValue(o, key) == GetAsFlashValue(o, key) /\ last' = NoLast

\* a handler calls a Session method; the history records what it returned
WatchSetValue(o, key, value) ==
    /\ SetValue(o, key, value)
    /\ last' = Returned("SetValue", obj[o].ID, o, "nil", Existed(o, key), FALSE)
WatchGetValue(o, key) ==
    /\ GetValue(o, key)
    /\ last' = Returned("GetValue", obj[o].ID, o, "nil", Existed(o, key), FALSE)
WatchGetAsFlashValue(o, key) ==
    /\ GetAsFlashValue(o, key)
    /\ last' = Returned("GetAsFlashValue", obj[o].ID, o, "nil", Existed(o, key), FALSE)

\* ------------------------------------------------- history of the Saves
\* a Save of a valid session returned nil now, with this timeout
NoteValidSave(id, timeout) ==
    [saved EXCEPT ![id].state = "valid", ![id].deadline = Add(now, timeout)]

\* a Save of a session with IsValid = false returned nil: "invalidated" if
\* a valid Save for the ID had returned before, "invalid" if none had
NoteInvalidSave(id) ==
    [saved EXCEPT ![id].state = IF @ = "none" \/ @ = "invalid"
                                THEN "invalid" ELSE "invalidated",
                  ![id].deadline = 0,
                  ![id].everInvalid = TRUE]

\* a Save for id returned: a Get of id in flight was issued before it
NoteConcurrent(id) ==
    IF rd.pc # "idle" /\ rd.id = id THEN [rd EXCEPT !.conc = TRUE] ELSE rd

\* ----------------------------------------------- inMemorySessionStore
DeleteKeepsItem(item) == item

\* delete(store.sessions, key)
Delete(item) == NoItem

MemSaveKeepsExpired(item) == item.ok /\ obj[item.session].IsValid

MemSaveKeepsItem(item) ==
    item.ok /\ obj[item.session].IsValid /\ After(item.expiration, now)

\* inMemorySessionStore.Save, under store.lock.Lock()
MemSaveBody(o, timeout) ==
    LET id == obj[o].ID
        item == sessions[id] IN
    /\ kind = "mem"
    /\ CanCall
    /\ obj[o].alloc
    /\ IF ~obj[o].IsValid
       THEN /\ sessions' = [sessions EXCEPT ![id] = Delete(@)]
            /\ saved' = NoteInvalidSave(id)
       ELSE /\ IF MemSaveKeepsItem(item)
               THEN sessions' = [sessions EXCEPT ![id].expiration = Add(now, timeout)]
               ELSE sessions' = [sessions EXCEPT ![id] =
                        [ok |-> TRUE, session |-> o, expiration |-> Add(now, timeout)]]
            /\ saved' = NoteValidSave(id, timeout)
    /\ last' = Returned("Save", id, o, "nil", obj[o].IsValid, FALSE)
    /\ UNCHANGED <<kind, now, obj, gc, files, redis, sv, rd>>

MemSave(o, timeout) == MemSaveBody(o, timeout) /\ UNCHANGED others

\* the Save, with the history keeping the entry it found: item, ok :=
\* store.sessions[session.ID]
WatchMemSave(o, timeout) ==
    /\ MemSaveBody(o, timeout)
    /\ prior' = sessions[obj[o].ID]
    /\ UNCHANGED <<thr, lk, taken, rq, storeLock, run, closing, carriers,
                   pipe, mgrs>>

MemGetMissesNoCheck(item) == ~item.ok

MemGetMisses(item) == ~item.ok \/ Before(item.expiration, now)

MemGetKeepsDirty(o) == obj[o].isDirty

MemGetDirty(o) == FALSE

MemGetSlides(item) ==
    IF item.ok THEN [item EXCEPT !.expiration = Add(now, 1)] ELSE item

\* inMemorySessionStore.Get does not assign to store.sessions or to the item
MemGetItem(item) == item

\* inMemorySessionStore.Get, under store.lock.RLock()
MemGetBody(id) ==
    LET item == sessions[id] IN
    /\ kind = "mem"
    /\ CanCall
    /\ IF MemGetMisses(item)
       THEN /\ last' = Returned("Get", id, 0, "ErrSessionNotFound",
                                item.ok /\ Before(item.expiration, now), FALSE)
            /\ obj' = obj
       ELSE /\ obj' = [obj EXCEPT ![item.session].isDirty = MemGetDirty(item.session)]
            /\ last' = Returned("Get", id, item.session, "nil",
                                Before(item.expiration, now), FALSE)
    /\ sessions' = [sessions EXCEPT ![id] = MemGetItem(item)]
    /\ UNCHANGED <<kind, now, gc, files, redis, sv, rd, saved>>

MemGet(id) == MemGetBody(id) /\ UNCHANGED others

\* inMemorySessionStore.doGC, first half: collect under store.lock.RLock()
MemGCCollect ==
    /\ kind = "mem"
    /\ CanCall
    /\ gc.pc = "idle"
    /\ gc' = [gc EXCEPT !.pc = "delete",
                        !.keysToRemove = {i \in StoreIDs : sessions[i].ok
                                            /\ Before(sessions[i].expiration, now)}]
    /\ last' = NoLast
    /\ UNCHANGED <<others, kind, now, obj, sessions, files, redis, sv, rd, saved>>

\* inMemorySessionStore.doGC, second half: delete under store.lock.Lock()
MemGCDelete ==
    /\ kind = "mem"
    /\ gc.pc = "delete"
    /\ sessions' = [i \in StoreIDs |->
                        IF i \in gc.keysToRemove THEN Delete(sessions[i]) ELSE sessions[i]]
    /\ gc' = IdleGC
    /\ last' = NoLast
    /\ UNCHANGED <<others, kind, now, obj, files, redis, sv, rd, saved>>

\* --------------------------------------------------- fileSessionStore
\* os.Remove(name): the name goes; a descriptor still open on the file
\* keeps writing to a file no name leads to
Unlinked(s, id) ==
    [o \in Objs |->
        IF s[o].id = id /\ s[o].linked
        THEN [s[o] EXCEPT !.linked = FALSE] ELSE s[o]]

\* fileSessionStore.readSession: what gob decodes from the file, the first
\* fileSessionItem of its content
Decodable(f) == f.exists /\ Len(f.content) > 0
FirstItem(f) == f.content[1]

\* fileSessionStore.Save of a session with IsValid = false
FileSaveInvalid(o) ==
    LET id == obj[o].ID IN
    /\ kind = "file"
    /\ CanCall
    /\ obj[o].alloc
    /\ ~obj[o].IsValid
    /\ sv[o].pc = "idle"
    /\ files' = [files EXCEPT ![id] = NoFile]
    /\ sv' = Unlinked(sv, id)
    /\ rd' = NoteConcurrent(id)
    /\ saved' = NoteInvalidSave(id)
    /\ last' = Returned("Save", id, o, "nil", FALSE, FALSE)
    /\ UNCHANGED <<others, kind, now, obj, sessions, gc, redis>>

\* fileSessionStore.Save of a valid session: session.Serialize()
FileSaveSerialize(o, timeout) ==
    /\ kind = "file"
    /\ CanCall
    /\ obj[o].alloc
    /\ obj[o].IsValid
    /\ sv[o].pc = "idle"
    /\ sv' = [sv EXCEPT ![o] = [IdleSave EXCEPT !.pc = "save_remove",
                    !.id = obj[o].ID, !.timeout = timeout,
                    !.data = SerializeData(obj[o].data)]]
    /\ last' = NoLast
    /\ UNCHANGED <<others, kind, now, obj, sessions, gc, files, redis, rd, saved>>

\* fileSessionStore.Save: session.lock.Lock(), os.Remove(filePath)
FileSaveRemove(o) ==
    /\ kind = "file"
    /\ sv[o].pc = "save_remove"
    /\ files' = [files EXCEPT ![sv[o].id] = NoFile]
    /\ sv' = [Unlinked(sv, sv[o].id) EXCEPT ![o].pc = "save_open"]
    /\ last' = NoLast
    /\ UNCHANGED <<others, kind, now, obj, sessions, gc, redis, rd, saved>>

\* fileSessionStore.Save: os.OpenFile(O_APPEND|O_CREATE|O_WRONLY)
FileSaveOpen(o) ==
    /\ kind = "file"
    /\ sv[o].pc = "save_open"
    /\ files' = [files EXCEPT ![sv[o].id] =
                    IF @.exists THEN @ ELSE [exists |-> TRUE, content |-> <<>>]]
    /\ sv' = [sv EXCEPT ![o].pc = "save_write", ![o].linked = TRUE]
    /\ last' = NoLast
    /\ UNCHANGED <<others, kind, now, obj, sessions, gc, redis, rd, saved>>

\* fileSessionStore.Save: encoder.Encode(sessionItem), file.Close(),
\* session.lock.Unlock(), return
FileSaveWrite(o) ==
    LET id == sv[o].id
        sessionItem == [Data |-> sv[o].data,
                        Expiration |-> Add(now, sv[o].timeout)] IN
    /\ kind = "file"
    /\ sv[o].pc = "save_write"
    /\ files' = [files EXCEPT ![id].content =
                    IF sv[o].linked THEN Append(@, sessionItem) ELSE @]
    /\ sv' = [sv EXCEPT ![o] = IdleSave]
    /\ rd' = NoteConcurrent(id)
    /\ saved' = NoteValidSave(id, sv[o].timeout)
    /\ last' = Returned("Save", id, o, "nil", TRUE, sv[o].mutSince)
    /\ UNCHANGED <<others, kind, now, obj, sessions, gc, redis>>

\* fileSessionStore.Get, readSession: os.Stat(filePath)
FileGetStat(id) ==
    /\ kind = "file"
    /\ CanCall
    /\ rd.pc = "idle"
    /\ IF files[id].exists
       THEN /\ rd' = [IdleGet EXCEPT !.pc = "get_open", !.id = id]
            /\ last' = NoLast
       ELSE /\ rd' = rd
            /\ last' = Returned("Get", id, 0, "ErrSessionNotFound", FALSE, FALSE)
    /\ UNCHANGED <<others, kind, now, obj, sessions, gc, files, redis, sv, saved>>

FileGetMisses(item) == Before(item.Expiration, now)

\* fileSessionStore.Get: os.Open, decoder.Decode, the expiration check,
\* NewSession(id) and session.Deserialize(sessionItem.Data)
FileGetRead ==
    LET id == rd.id
        f == files[id] IN
    /\ kind = "file"
    /\ rd.pc = "get_open"
    /\ IF ~Decodable(f)
       THEN /\ last' = Returned("Get", id, 0, "error", FALSE, rd.conc)
            /\ obj' = obj
       ELSE IF FileGetMisses(FirstItem(f))
       THEN /\ last' = Returned("Get", id, 0, "ErrSessionNotFound",
                                Before(FirstItem(f).Expiration, now), rd.conc)
            /\ obj' = obj
       ELSE /\ FreeObjs # {}
            /\ obj' = [obj EXCEPT ![NextFree] =
                        [NewSession(id) EXCEPT !.data =
                            DeserializeData(EmptyData, FirstItem(f).Data)]]
            /\ last' = Returned("Get", id, NextFree, "nil",
                                Before(FirstItem(f).Expiration, now), rd.conc)
    /\ rd' = IdleGet
    /\ UNCHANGED <<others, kind, now, sessions, gc, files, redis, sv, saved>>

\* fileSessionStore.doGC: ioutil.ReadDir(store.path), now := time.Now()
FileGCList ==
    /\ kind = "file"
    /\ CanCall
    /\ gc.pc = "idle"
    /\ \E i \in StoreIDs : files[i].exists
    /\ gc' = [gc EXCEPT !.pc = "scan", !.now = now,
                        !.files = {i \in StoreIDs : files[i].exists}]
    /\ last' = NoLast
    /\ UNCHANGED <<others, kind, now, obj, sessions, files, redis, sv, rd, saved>>

FileGCNeverExpired(f, t) == FALSE

FileGCExpiredOrUnread(f, t) ==
    ~Decodable(f) \/ Before(FirstItem(f).Expiration, t)

\* fileSessionStore.doGC: if item != nil && item.Expiration.Before(now)
FileGCExpired(f, t) ==
    Decodable(f) /\ Before(FirstItem(f).Expiration, t)

\* fileSessionStore.doGC: readSession of the next listed file; history:
\* unread = the files of this sweep readSession returned no item for
FileGCRead ==
    /\ kind = "file"
    /\ gc.pc = "scan"
    /\ \E name \in gc.files :
         gc' = IF FileGCExpired(files[name], gc.now)
               THEN [gc EXCEPT !.pc = "remove", !.name = name]
               ELSE IF gc.files = {name} THEN IdleGC
               ELSE [gc EXCEPT !.files = @ \ {name},
                               !.unread = IF Decodable(files[name]) THEN @
                                          ELSE @ \cup {name}]
    /\ last' = NoLast
    /\ UNCHANGED <<others, kind, now, obj, sessions, files, redis, sv, rd, saved>>

\* fileSessionStore.doGC: os.Remove of the file found expired
FileGCRemove ==
    /\ kind = "file"
    /\ gc.pc = "remove"
    /\ files' = [files EXCEPT ![gc.name] = NoFile]
    /\ sv' = Unlinked(sv, gc.name)
    /\ gc' = IF gc.files = {gc.name} THEN IdleGC
             ELSE [gc EXCEPT !.pc = "scan", !.files = @ \ {gc.name}, !.name = ""]
    /\ last' = NoLast
    /\ UNCHANGED <<others, kind, now, obj, sessions, redis, rd, saved>>

\* -------------------------------------------------- redisSessionStore
\* the redis server drops a key once its time to live has passed
RedisLive(key) == key.ok /\ ~(now > key.expireAt)

\* redisSessionStore.Save of a session with IsValid = false: Del
RedisSaveInvalid(o) ==
    LET id == obj[o].ID IN
    /\ kind = "redis"
    /\ CanCall
    /\ obj[o].alloc
    /\ ~obj[o].IsValid
    /\ sv[o].pc = "idle"
    /\ redis' = [redis EXCEPT ![id] = NoKey]
    /\ saved' = NoteInvalidSave(id)
    /\ last' = Returned("Save", id, o, "nil", FALSE, FALSE)
    /\ UNCHANGED <<others, kind, now, obj, sessions, gc, files, sv, rd>>

\* redisSessionStore.Save of a valid session: session.Serialize()
RedisSaveSerialize(o, timeout) ==
    /\ kind = "redis"
    /\ CanCall
    /\ obj[o].alloc
    /\ obj[o].IsValid
    /\ sv[o].pc = "idle"
    /\ sv' = [sv EXCEPT ![o] = [IdleSave EXCEPT !.pc = "redis_set",
                    !.id = obj[o].ID, !.timeout = timeout,
                    !.data = SerializeData(obj[o].data)]]
    /\ last' = NoLast
    /\ UNCHANGED <<others, kind, now, obj, sessions, gc, files, redis, rd, saved>>

\* redisSessionStore.Save: redisDb.Set(session.ID, data, timeout)
RedisSaveSet(o) ==
    LET id == sv[o].id IN
    /\ kind = "redis"
    /\ sv[o].pc = "redis_set"
    /\ redis' = [redis EXCEPT ![id] = [ok |-> TRUE, data |-> sv[o].data,
                                       expireAt |-> Add(now, sv[o].timeout)]]
    /\ sv' = [sv EXCEPT ![o] = IdleSave]
    /\ saved' = NoteValidSave(id, sv[o].timeout)
    /\ last' = Returned("Save", id, o, "nil", TRUE, sv[o].mutSince)
    /\ UNCHANGED <<others, kind, now, obj, sessions, gc, files, rd>>

\* redisSessionStore.Get
RedisGet(id) ==
    LET key == redis[id] IN
    /\ kind = "redis"
    /\ CanCall
    /\ IF ~RedisLive(key)
       THEN /\ last' = Returned("Get", id, 0, "ErrSessionNotFound",
                                key.ok /\ Before(key.expireAt, now), FALSE)
            /\ obj' = obj
       ELSE /\ FreeObjs # {}
            /\ obj' = [obj EXCEPT ![NextFree] =
                        [NewSession(id) EXCEPT !.data =
                            DeserializeData(EmptyData, key.data)]]
            /\ last' = Returned("Get", id, NextFree, "nil",
                                Before(key.expireAt, now), FALSE)
    /\ UNCHANGED <<others, kind, now, sessions, gc, files, redis, sv, rd, saved>>

\* ------------------------------------------- failures of the storage
\* fileSessionStore.Save of a session with IsValid = false whose os.Remove
\* fails on an existing file: the error is logged, Save returns nil
FileSaveInvalidRemoveFails(o) ==
    LET id == obj[o].ID IN
    /\ kind = "file"
    /\ CanCall
    /\ obj[o].alloc
    /\ ~obj[o].IsValid
    /\ sv[o].pc = "idle"
    /\ files[id].exists
    /\ rd' = NoteConcurrent(id)
    /\ saved' = NoteInvalidSave(id)
    /\ last' = Returned("Save", id, o, "nil", FALSE, FALSE)
    /\ UNCHANGED <<others, kind, now, obj, sessions, gc, files, redis, sv>>

\* redisSessionStore.Save of a session with IsValid = false whose Del fails:
\* return status.Err()
RedisSaveInvalidDelFails(o) ==
    LET id == obj[o].ID IN
    /\ kind = "redis"
    /\ CanCall
    /\ obj[o].alloc
    /\ ~obj[o].IsValid
    /\ sv[o].pc = "idle"
    /\ last' = Returned("Save", id, o, "error", FALSE, FALSE)
    /\ UNCHANGED <<others, kind, now, obj, sessions, gc, files, redis, sv, rd, saved>>

\* ------------------------- Session methods, statement by statement
\* what a step inside a Session method leaves alone
storeVars == <<kind, now, sessions, gc, files, redis, sv, rd, saved, last, aside>>

CanLockAnyway(o) == TRUE

\* sync.RWMutex.Lock: waits until the writer and the readers have left
CanLock(o) == lk[o].w = 0 /\ lk[o].r = {}

CanRLockAnyway(o) == TRUE

\* sync.RWMutex.RLock: waits until the writer has left
CanRLock(o) == lk[o].w = 0

EveryMethodWrites(op) == TRUE

\* SetValue and GetAsFlashValue take session.lock.Lock(), GetValue RLock()
Writes(op) == op \in {"SetValue", "GetAsFlashValue"}

\* a goroutine calls SetValue, GetValue or GetAsFlashValue of a session
SessionCall(g, op, o, key, value) ==
    /\ thr[g].pc = "idle"
    /\ obj[o].alloc
    /\ thr' = [thr EXCEPT ![g] = [IdleThread EXCEPT !.pc = "lock", !.op = op,
                    !.o = o, !.key = key, !.value = value]]
    /\ UNCHANGED <<storeVars, obj, lk, taken, rq>>

\* session.lock.Lock() / session.lock.RLock()
SessionLock(g) ==
    LET o == thr[g].o IN
    /\ thr[g].pc = "lock"
    /\ IF Writes(thr[g].op)
       THEN CanLock(o) /\ lk' = [lk EXCEPT ![o].w = g]
       ELSE CanRLock(o) /\ lk' = [lk EXCEPT ![o].r = @ \cup {g}]
    /\ thr' = [thr EXCEPT ![g].pc = "read", ![g].snap = obj[o].data[thr[g].key]]
    /\ UNCHANGED <<storeVars, obj, taken, rq>>

\* oldValue, ok := session.data[key]  /  value, ok := session.data[key]
SessionRead(g) ==
    LET o == thr[g].o
        key == thr[g].key
        ok == Existed(o, key) IN
    /\ thr[g].pc = "read"
    /\ thr' = [thr EXCEPT ![g].rv = IF ok THEN obj[o].data[key] ELSE "nil",
                          ![g].rok = ok,
                          ![g].pc = IF Writes(thr[g].op) THEN "write" ELSE "return"]
    /\ taken' = IF thr[g].op = "GetAsFlashValue" /\ ok
                THEN [taken EXCEPT ![o][key].by = @ \cup {g}] ELSE taken
    /\ UNCHANGED <<storeVars, obj, lk, rq>>

\* SetValue: session.data[key] = value
\* GetAsFlashValue: if ok { delete(session.data, key) }
SessionWrite(g) ==
    LET o == thr[g].o
        key == thr[g].key IN
    /\ thr[g].pc = "write"
    /\ obj' = IF thr[g].op = "SetValue"
              THEN [obj EXCEPT ![o].data[key] = thr[g].value]
              ELSE IF thr[g].rok THEN [obj EXCEPT ![o].data[key] = NoVal]
              ELSE obj
    /\ taken' = IF thr[g].op = "SetValue"
                THEN [taken EXCEPT ![o][key] = [by |-> {}, written |-> TRUE]]
                ELSE taken
    /\ thr' = [thr EXCEPT ![g].pc = "dirty"]
    /\ UNCHANGED <<storeVars, lk, rq>>

\* session.isDirty = true
SessionMarkDirty(g) ==
    LET o == thr[g].o IN
    /\ thr[g].pc = "dirty"
    /\ obj' = [obj EXCEPT ![o].isDirty =
                    IF thr[g].op = "SetValue" THEN TRUE ELSE FlashDirty(o, thr[g].rok)]
    /\ thr' = [thr EXCEPT ![g].pc = "return"]
    /\ UNCHANGED <<storeVars, lk, taken, rq>>

\* return value, ok with the deferred session.lock.Unlock() / RUnlock()
SessionReturn(g) ==
    LET o == thr[g].o IN
    /\ thr[g].pc = "return"
    /\ lk' = IF Writes(thr[g].op) THEN [lk EXCEPT ![o].w = 0]
             ELSE [lk EXCEPT ![o].r = @ \ {g}]
    /\ thr' = [thr EXCEPT ![g].pc = "idle"]
    /\ UNCHANGED <<storeVars, obj, taken, rq>>

\* ------------------------------------------ sessionHandler.ServeHTTP
\* the session objects the requests in flight hold
HeldBy(r) == {rq[r].session, rq[r].got, rq[r].ctx} \ {0}

\* the IDs in use: of a live Session object or of a stored entry
UsedIDs ==
    {obj[o].ID : o \in {p \in Objs : obj[p].alloc}}
        \cup {i \in StoreIDs : sessions[i].ok}

\* NewSessionID(): an ID that was not generated before
NewSessionID(r) == CHOOSE i \in FreshIDs : i \notin UsedIDs

NeverNewSession(r) == FALSE

\* if session == nil
NeedsNewSession(r) == rq[r].session = 0

AlwaysSave(o) == TRUE

\* the deferred function: if session.NeedSave()
ShouldSave(o) == NeedSave(o)

\* a request arrives: cookie, err := request.Cookie(sessionIDCookieKey)
MwArrive(r, cookie) ==
    /\ rq[r].pc = "idle"
    /\ rq' = [rq EXCEPT ![r] = [IdleReq EXCEPT !.cookie = cookie,
                !.pc = IF cookie = NoCookie THEN "session" ELSE "get"]]
    /\ last' = NoLast
    /\ UNCHANGED <<kind, now, obj, sessions, gc, files, redis, sv, rd, saved,
                   thr, lk, taken, aside>>

\* session, err = handler.store.Get(cookie.Value), on the in-memory store
MwGet(r) ==
    /\ rq[r].pc = "get"
    /\ MemGetBody(rq[r].cookie)
    /\ rq' = [rq EXCEPT ![r].session = last'.o, ![r].got = last'.o,
                        ![r].err = last'.res, ![r].pc = "session"]
    /\ UNCHANGED <<thr, lk, taken, aside>>

\* handler.store.Get returns an error other than ErrSessionNotFound, as the
\* Get of the file store does: SendError(500) and return
MwGetFails(r) ==
    /\ rq[r].pc = "get"
    /\ rq' = [rq EXCEPT ![r].err = "error", ![r].status = 500, ![r].pc = "done"]
    /\ last' = Returned("Get", rq[r].cookie, 0, "error", FALSE, FALSE)
    /\ UNCHANGED <<kind, now, obj, sessions, gc, files, redis, sv, rd, saved,
                   thr, lk, taken, aside>>

\* if session == nil { session = NewSession(NewSessionID()); SetCookie }
MwSession(r) ==
    /\ rq[r].pc = "session"
    /\ IF NeedsNewSession(r)
       THEN /\ FreeObjs # {}
            /\ FreshIDs \ UsedIDs # {}
            /\ obj' = [obj EXCEPT ![NextFree] = NewSession(NewSessionID(r))]
            /\ rq' = [rq EXCEPT ![r].session = NextFree,
                                ![r].setCookie = NewSessionID(r),
                                ![r].pc = "attach"]
       ELSE /\ obj' = obj
            /\ rq' = [rq EXCEPT ![r].pc = "attach"]
    /\ last' = NoLast
    /\ UNCHANGED <<kind, now, sessions, gc, files, redis, sv, rd, saved,
                   thr, lk, taken, aside>>

\* request.Context().(*multiValueCtx).withValue(SessionKey, session) and
\* the defer of the saving function
MwAttach(r) ==
    /\ rq[r].pc = "attach"
    /\ rq' = [rq EXCEPT ![r].ctx = rq[r].session, ![r].pc = "attached"]
    /\ last' = NoLast
    /\ UNCHANGED <<kind, now, obj, sessions, gc, files, redis, sv, rd, saved,
                   thr, lk, taken, aside>>

\* handler.pipeline.ServeHTTP(writer, request)
MwInvoke(r) ==
    /\ rq[r].pc = "attached"
    /\ rq' = [rq EXCEPT ![r].pc = "pipeline"]
    /\ last' = NoLast
    /\ UNCHANGED <<kind, now, obj, sessions, gc, files, redis, sv, rd, saved,
                   thr, lk, taken, aside>>

\* the pipeline works on GetSession(request)
MwHandlerSetValue(r, key, value) ==
    /\ rq[r].pc = "pipeline"
    /\ SetValueBody(rq[r].ctx, key, value)
    /\ rq' = [rq EXCEPT ![r].mutated = TRUE]
    /\ last' = NoLast
    /\ UNCHANGED <<thr, lk, taken, aside>>
MwHandlerFlash(r, key) ==
    /\ rq[r].pc = "pipeline"
    /\ GetAsFlashValueBody(rq[r].ctx, key)
    /\ rq' = [rq EXCEPT ![r].mutated = TRUE]
    /\ last' = NoLast
    /\ UNCHANGED <<thr, lk, taken, aside>>
MwHandlerInvalidate(r) ==
    rq[r].pc = "pipeline" /\ SetInvalid(rq[r].ctx)

\* the pipeline returns
MwPipelineReturns(r) ==
    /\ rq[r].pc = "pipeline"
    /\ rq' = [rq EXCEPT ![r].status = 200, ![r].pc = "deferred"]
    /\ last' = NoLast
    /\ UNCHANGED <<kind, now, obj, sessions, gc, files, redis, sv, rd, saved,
                   thr, lk, taken, aside>>

\* the deferred function: if session.NeedSave() { handler.store.Save(...) }
MwDeferred(r, timeout) ==
    /\ rq[r].pc = "deferred"
    /\ IF ShouldSave(rq[r].session)
       THEN MemSaveBody(rq[r].session, timeout)
       ELSE /\ last' = NoLast
            /\ UNCHANGED <<kind, now, obj, sessions, gc, files, redis, sv, rd, saved>>
    /\ rq' = [rq EXCEPT ![r].pc = "done"]
    /\ UNCHANGED <<thr, lk, taken, aside>>

\* the request is over: a session object nothing refers to any more goes
MwFinish(r) ==
    LET dropped == {o \in HeldBy(r) :
                        /\ ~InUse(o)
                        /\ \A q \in Reqs \ {r} : o \notin HeldBy(q)} IN
    /\ rq[r].pc = "done"
    /\ rq' = [rq EXCEPT ![r] = IdleReq]
    /\ obj' = [o \in Objs |-> IF o \in dropped THEN FreeObj ELSE obj[o]]
    /\ last' = NoLast
    /\ UNCHANGED <<kind, now, sessions, gc, files, redis, sv, rd, saved,
                   thr, lk, taken, aside>>

\* ------------------------------ the locks, lock operation by lock operation
\* A call is the sequence of its lock operations and of its accesses to
\* what the locks guard: <<"Lock" | "RLock" | "Unlock" | "RUnlock", lock>>
\* with lock "session" (Session.lock) or "store" (inMemorySessionStore.lock);
\* <<"read" | "write", what>> with what a field of the session ("data",
\* "isDirty"), the store's map ("sessions") or the session's file ("file").
SessionOps == {"SetValue", "GetValue", "GetAsFlashValue", "Serialize",
               "Deserialize", "NeedSave"}

\* the methods of Session
SessionProgram(op) ==
    CASE op = "SetValue" ->
            << <<"Lock", "session">>, <<"read", "data">>, <<"write", "data">>,
               <<"write", "isDirty">>, <<"Unlock", "session">> >>
      [] op = "GetValue" ->
            << <<"RLock", "session">>, <<"read", "data">>, <<"RUnlock", "session">> >>
      [] op = "GetAsFlashValue" ->
            << <<"Lock", "session">>, <<"read", "data">>, <<"write", "data">>,
               <<"write", "isDirty">>, <<"Unlock", "session">> >>
      [] op = "Serialize" ->
            << <<"RLock", "session">>, <<"read", "data">>, <<"RUnlock", "session">> >>
      [] op = "Deserialize" ->
            << <<"Lock", "session">>, <<"write", "data">>, <<"Unlock", "session">> >>
      [] op = "NeedSave" ->
            << <<"read", "isDirty">> >>

\* inMemorySessionStore.Save, Get (of a stored, unexpired session) and doGC
MemProgram(op) ==
    CASE op = "Save" ->
            << <<"Lock", "store">>, <<"read", "sessions">>, <<"write", "sessions">>,
               <<"Unlock", "store">> >>
      [] op = "Get" ->
            << <<"RLock", "store">>, <<"read", "sessions">>, <<"write", "isDirty">>,
               <<"RUnlock", "store">> >>
      [] op = "doGC" ->
            << <<"RLock", "store">>, <<"read", "sessions">>, <<"RUnlock", "store">>,
               <<"Lock", "store">>, <<"write", "sessions">>, <<"Unlock", "store">> >>

FileSaveKeepsRLock ==
    << <<"RLock", "session">>, <<"read", "data">>, <<"Lock", "session">>,
       <<"write", "file">>, <<"Unlock", "session">>, <<"RUnlock", "session">> >>

\* fileSessionStore.Save of a valid session: session.Serialize(), then
\* session.lock.Lock() and the rewriting of the file
FileSaveProgram ==
    << <<"RLock", "session">>, <<"read", "data">>, <<"RUnlock", "session">>,
       <<"Lock", "session">>, <<"write", "file">>, <<"Unlock", "session">> >>

Program(op) ==
    IF op \in SessionOps THEN SessionProgram(op)
    ELSE IF op = "FileSave" THEN FileSaveProgram
    ELSE MemProgram(op)

\* the calls a goroutine of the server makes with the configured store
OpsOf(k) ==
    SessionOps \cup (IF k = "mem" THEN {"Save", "Get", "doGC"}
                     ELSE IF k = "file" THEN {"FileSave"} ELSE {})

\* the statement goroutine g executes next
Stmt(g) == Program(run[g].op)[run[g].at]

Inside(g) == run[g].at > 0

\* the lock the next statement of g works on
LockOf(g) == IF Stmt(g)[2] = "store" THEN storeLock ELSE lk[run[g].o]

\* sync.RWMutex: a goroutine that waits in Lock() keeps new readers out
WriterWaits(g) ==
    \E h \in Threads \ {g} :
        /\ Inside(h)
        /\ Stmt(h) = <<"Lock", Stmt(g)[2]>>
        /\ Stmt(g)[2] = "store" \/ run[g].o = run[h].o

\* Lock() returns when the writer and the readers have left, RLock() when
\* no writer holds the lock or waits for it
CanAcquire(g) ==
    IF Stmt(g)[1] = "Lock"
    THEN LockOf(g).w = 0 /\ LockOf(g).r = {}
    ELSE LockOf(g).w = 0 /\ ~WriterWaits(g)

SetLock(g, l) ==
    IF Stmt(g)[2] = "store"
    THEN storeLock' = l /\ lk' = lk
    ELSE lk' = [lk EXCEPT ![run[g].o] = l] /\ storeLock' = storeLock

\* the statement is done; after the last one the call returns
Advance(g) ==
    run' = [run EXCEPT ![g] =
                IF run[g].at = Len(Program(run[g].op)) THEN IdleRun
                ELSE [run[g] EXCEPT !.at = run[g].at + 1]]

\* what a lock operation or an access leaves alone
syncFrame == <<kind, now, obj, sessions, gc, files, redis, sv, rd, saved, last,
               thr, taken, rq, prior, closing, carriers, pipe, mgrs>>

\* a goroutine calls a method of session o, or a store method with it
SyncCall(g, op, o) ==
    /\ ~Inside(g)
    /\ obj[o].alloc
    /\ op \in OpsOf(kind)
    /\ run' = [run EXCEPT ![g] = [op |-> op, o |-> o, at |-> 1]]
    /\ UNCHANGED <<syncFrame, lk, storeLock>>

\* lock.Lock() / lock.RLock()
SyncAcquire(g) ==
    /\ Inside(g)
    /\ Stmt(g)[1] \in {"Lock", "RLock"}
    /\ CanAcquire(g)
    /\ SetLock(g, IF Stmt(g)[1] = "Lock" THEN [LockOf(g) EXCEPT !.w = g]
                  ELSE [LockOf(g) EXCEPT !.r = @ \cup {g}])
    /\ Advance(g)
    /\ UNCHANGED syncFrame

\* lock.Unlock() / lock.RUnlock()
SyncRelease(g) ==
    /\ Inside(g)
    /\ Stmt(g)[1] \in {"Unlock", "RUnlock"}
    /\ SetLock(g, IF Stmt(g)[1] = "Unlock" THEN [LockOf(g) EXCEPT !.w = 0]
                  ELSE [LockOf(g) EXCEPT !.r = @ \ {g}])
    /\ Advance(g)
    /\ UNCHANGED syncFrame

\* a read or a write of what the locks guard
SyncAccess(g) ==
    /\ Inside(g)
    /\ Stmt(g)[1] \in {"read", "write"}
    /\ Advance(g)
    /\ UNCHANGED <<syncFrame, lk, storeLock>>

\* ------------------------------------------- Close and the GC goroutine
WorkerListensAlways == TRUE

\* the GC goroutine is in its select, where it receives from exitChan
WorkerListens == gc.pc = "idle"

WorkerKeepsRunning == "idle"

\* case <-store.exitChan: return
WorkerAfterSignal == "exited"

ChanStaysOpen == "open"

\* close(store.exitChan)
ChanAfterClose == "closed"

\* what a step of Close leaves alone
closeFrame == <<kind, now, obj, sessions, files, redis, sv, rd, saved,
                thr, lk, taken, rq, storeLock, run, prior, carriers, pipe,
                mgrs>>

\* a goroutine calls store.Close() of the in-memory or the file store
CloseCall(g) ==
    /\ kind \in {"mem", "file"}
    /\ closing.pc[g] = "idle"
    /\ closing' = [closing EXCEPT !.pc[g] = "send"]
    /\ last' = NoLast
    /\ UNCHANGED <<closeFrame, gc>>

\* store.exitChan <- true on the unbuffered channel: panics if the channel
\* is closed (also while the sender waits), else waits for the GC goroutine
\* to receive, which then returns
CloseSend(g) ==
    /\ closing.pc[g] = "send"
    /\ IF closing.chan = "closed"
       THEN /\ closing' = [closing EXCEPT !.pc[g] = "panic", !.at[g] = "send"]
            /\ gc' = gc
       ELSE /\ WorkerListens
            /\ gc' = [gc EXCEPT !.pc = WorkerAfterSignal]
            /\ closing' = [closing EXCEPT !.pc[g] = "close"]
    /\ last' = NoLast
    /\ UNCHANGED closeFrame

\* store.gcTicker.Stop(); close(store.exitChan): close panics on a closed
\* channel
CloseChan(g) ==
    /\ closing.pc[g] = "close"
    /\ closing' = IF closing.chan = "closed"
                  THEN [closing EXCEPT !.pc[g] = "panic", !.at[g] = "close"]
                  ELSE [closing EXCEPT !.pc[g] = "done", !.chan = ChanAfterClose]
    /\ last' = NoLast
    /\ UNCHANGED <<closeFrame, gc>>

\* ------------------------------------------------------ multiValueCtx
\* Value of the context net/http made for a request: it knows the keys of
\* the server, none of the overlay's
BaseValue(b, key) == IF key = "http-server" THEN <<"http-server", 0 - b>> ELSE Nil

ValueOwnOnly(c, key) ==
    IF c < 0 THEN BaseValue(c, key)
    ELSE IF key \in CtxKeys THEN carriers[c].values[key] ELSE Nil

RECURSIVE Value(_, _)
\* multiValueCtx.Value: the overlay first, then ctx.parent.Value
Value(c, key) ==
    IF c < 0 THEN BaseValue(c, key)
    ELSE IF key \in CtxKeys /\ carriers[c].values[key] # Nil
         THEN carriers[c].values[key]
         ELSE Value(carriers[c].parent, key)

SharedCarrier == CHOOSE c \in 1..NumCtx : TRUE

\* &multiValueCtx{...}: a new object
NewCarrier == CHOOSE c \in 1..NumCtx : ~carriers[c].made

WithValueOnNext(c) == IF c < NumCtx THEN c + 1 ELSE 1

\* withValue works on ctx itself and returns ctx
WithValueTarget(c) == c

\* what a step on the contexts leaves alone
ctxFrame == <<kind, now, obj, sessions, gc, files, redis, sv, rd, saved,
              thr, lk, taken, rq, storeLock, run, prior, closing, mgrs>>

\* extentContext(request.Context()); with attach, request.WithContext of
\* the result follows, without it the request keeps its context and the new
\* carrier is a child context that wraps it
ExtentContext(r, attach) ==
    /\ \E c \in 1..NumCtx : ~carriers[c].made
    /\ carriers' = [carriers EXCEPT ![NewCarrier] =
                        [made |-> TRUE, values |-> [k \in CtxKeys |-> Nil],
                         parent |-> pipe[r].ctx]]
    /\ pipe' = IF attach THEN [pipe EXCEPT ![r].ctx = NewCarrier] ELSE pipe
    /\ last' = NoLast
    /\ UNCHANGED ctxFrame

\* request.Context().(*multiValueCtx).withValue(key, value)
WithValue(r, key, value) ==
    /\ pipe[r].ctx > 0
    /\ carriers' = [carriers EXCEPT ![WithValueTarget(pipe[r].ctx)].values[key] = value]
    /\ pipe' = [pipe EXCEPT ![r].ret = WithValueTarget(pipe[r].ctx)]
    /\ last' = Returned("withValue", key, r, "nil", FALSE, FALSE)
    /\ UNCHANGED ctxFrame

\* The handlers of the server's pipeline, outermost first: LoggingHandler,
\* the session handler, the SecurityHandler, the router.  A value attached
\* by a handler is <<handler, request>>.
SecurityKeyOfSession == "UserSession"
SecurityKey == "UserPrincipal"

\* LoggingHandler: a new carrier around the request's context, the trace id
\* on it, and the rest of the pipeline gets the request with that carrier
LoggingServe(r) ==
    /\ pipe[r].pc = "logging"
    /\ \E c \in 1..NumCtx : ~carriers[c].made
    /\ carriers' = [carriers EXCEPT ![NewCarrier] =
                        [made |-> TRUE,
                         values |-> [k \in CtxKeys |->
                                        IF k = "TraceActivityID"
                                        THEN <<"logging", r>> ELSE Nil],
                         parent |-> pipe[r].ctx]]
    /\ pipe' = [pipe EXCEPT ![r] = [pc |-> "session", ctx |-> NewCarrier,
                                    ret |-> NewCarrier]]
    /\ last' = Returned("withValue", "TraceActivityID", r, "nil", FALSE, FALSE)
    /\ UNCHANGED ctxFrame

\* the session handler: a failing store ends the request with a 500, else
\* the session found or made is attached
SessionServe(r, storeFails) ==
    /\ pipe[r].pc = "session"
    /\ IF storeFails
       THEN /\ pipe' = [pipe EXCEPT ![r].pc = "done"]
            /\ last' = NoLast
            /\ UNCHANGED carriers
       ELSE /\ carriers' = [carriers EXCEPT
                   ![WithValueTarget(pipe[r].ctx)].values["UserSession"] =
                        <<"session", r>>]
            /\ pipe' = [pipe EXCEPT ![r].pc = "security",
                                    ![r].ret = WithValueTarget(pipe[r].ctx)]
            /\ last' = Returned("withValue", "UserSession", r, "nil",
                                FALSE, FALSE)
    /\ UNCHANGED ctxFrame

\* SecurityHandler: an anonymously accessible path goes on unauthenticated;
\* else the principal a provider gives is attached, and the request goes on
\* if the principal has access
SecurityServe(r, anonymous, authenticated, access) ==
    /\ pipe[r].pc = "security"
    /\ IF anonymous \/ ~authenticated
       THEN /\ pipe' = [pipe EXCEPT ![r].pc =
                            IF anonymous THEN "router" ELSE "done"]
            /\ last' = NoLast
            /\ UNCHANGED carriers
       ELSE /\ carriers' = [carriers EXCEPT
                   ![WithValueTarget(pipe[r].ctx)].values[SecurityKey] =
                        <<"security", r>>]
            /\ pipe' = [pipe EXCEPT
                   ![r].pc = IF access THEN "router" ELSE "done",
                   ![r].ret = WithValueTarget(pipe[r].ctx)]
            /\ last' = Returned("withValue", SecurityKey, r, "nil",
                                FALSE, FALSE)
    /\ UNCHANGED ctxFrame

\* the router and the handler it finds serve the request
RouterServe(r) ==
    /\ pipe[r].pc = "router"
    /\ pipe' = [pipe EXCEPT ![r].pc = "done"]
    /\ last' = NoLast
    /\ UNCHANGED <<carriers, ctxFrame>>

\* ------------------------------------------------------- ConcurrentMap
\* what a step on the map leaves alone
mapFrame == <<kind, now, obj, sessions, gc, files, redis, sv, rd, saved, last,
              thr, lk, taken, rq, storeLock, run, prior, closing, carriers,
              pipe, skins>>

\* a goroutine waits in m.lock.Lock()
MapWriterWaits == \E h \in Threads : cmap.call[h].pc = "lock"

\* a goroutine is inside GetOrCompute for the key
MapInFlight(key) ==
    \E h \in Threads : cmap.call[h].pc # "idle" /\ cmap.call[h].key = key

RecheckSkipped(value) == FALSE

\* value, ok = m.values[key] under the write lock
Recheck(value) == value # Nil

\* GetOrCompute(key, generator) is called
MapCall(g, key) ==
    /\ cmap.call[g].pc = "idle"
    /\ cmap' = [cmap EXCEPT !.call[g] =
                    [IdleCaller EXCEPT !.pc = "rlock", !.key = key]]
    /\ UNCHANGED mapFrame

\* the closure: m.lock.RLock(); value, ok = m.values[key]
MapRLock(g) ==
    LET c == cmap.call[g] IN
    /\ c.pc = "rlock"
    /\ cmap.lock.w = 0
    /\ ~MapWriterWaits
    /\ cmap' = [cmap EXCEPT !.lock.r = @ \cup {g},
                            !.call[g].pc = "runlock",
                            !.call[g].value = cmap.values[c.key],
                            !.call[g].ok = (cmap.values[c.key] # Nil)]
    /\ UNCHANGED mapFrame

\* the closure's deferred RUnlock; if ok { return value }
MapRUnlock(g) ==
    LET c == cmap.call[g] IN
    /\ c.pc = "runlock"
    /\ cmap' = [cmap EXCEPT !.lock.r = @ \ {g},
                            !.call[g] =
                                IF c.ok
                                THEN [IdleCaller EXCEPT !.ret = c.value]
                                ELSE [c EXCEPT !.pc = "lock"]]
    /\ UNCHANGED mapFrame

\* m.lock.Lock()
MapLock(g) ==
    /\ cmap.call[g].pc = "lock"
    /\ cmap.lock.w = 0
    /\ cmap.lock.r = {}
    /\ cmap' = [cmap EXCEPT !.lock.w = g, !.call[g].pc = "compute"]
    /\ UNCHANGED mapFrame

\* value, ok = m.values[key]; if !ok { value = generator();
\* m.values[key] = value }: the n-th generated value of a key is <<key, n>>
MapCompute(g) ==
    LET c == cmap.call[g]
        n == IF cmap.touched[c.key] THEN 0 ELSE cmap.generated[c.key] + 1
    IN
    /\ c.pc = "compute"
    /\ IF Recheck(cmap.values[c.key])
       THEN cmap' = [cmap EXCEPT !.call[g].pc = "unlock",
                                 !.call[g].value = cmap.values[c.key]]
       ELSE cmap' = [cmap EXCEPT !.call[g].pc = "unlock",
                                 !.call[g].value = <<c.key, n>>,
                                 !.values[c.key] = <<c.key, n>>,
                                 !.generated[c.key] = n]
    /\ UNCHANGED mapFrame

\* the deferred Unlock; return value
MapUnlock(g) ==
    LET c == cmap.call[g] IN
    /\ c.pc = "unlock"
    /\ cmap' = [cmap EXCEPT !.lock.w = 0,
                            !.call[g] = [IdleCaller EXCEPT !.ret = c.value]]
    /\ UNCHANGED mapFrame

\* ConcurrentMap.Get(key), under RLock
MapGet(g, key) ==
    /\ cmap.call[g].pc = "idle"
    /\ cmap.lock.w = 0
    /\ ~MapWriterWaits
    /\ cmap' = [cmap EXCEPT !.call[g] =
                    [IdleCaller EXCEPT !.key = key, !.ret = cmap.values[key]]]
    /\ UNCHANGED mapFrame

\* ConcurrentMap.Delete(key), under Lock
MapDelete(g, key) ==
    /\ cmap.call[g].pc = "idle"
    /\ cmap.lock.w = 0
    /\ cmap.lock.r = {}
    /\ cmap' = [cmap EXCEPT !.values[key] = Nil,
                            !.generated[key] = 0,
                            !.touched[key] = @ \/ MapInFlight(key)]
    /\ UNCHANGED mapFrame

\* --------------------------------------------------------- SkinManager
\* what a step on the skin manager leaves alone
skinFrame == <<kind, now, obj, sessions, gc, files, redis, sv, rd, saved,
               last, thr, lk, taken, rq, storeLock, run, prior, closing,
               carriers, pipe, cmap>>

\* sync.RWMutex: a goroutine that has called Lock() and waits in it
SkinWriterWaits == \E h \in Threads : skins.call[h].pc = "lock"

\* RLock() returns when no writer holds the lock or waits for it, Lock()
\* when the writer and every reader have left
SkinCanAcquire(g) ==
    IF skins.call[g].pc = "lock"
    THEN skins.lock.w = 0 /\ \A h \in Threads : skins.lock.r[h] = 0
    ELSE skins.lock.w = 0 /\ ~SkinWriterWaits

\* ApplySelector(request) is called: it reads skinMgr.selector and goes to
\* GetDefaultSkin if there is none, to its RLock() if there is one
SkinApplySelector(g) ==
    /\ skins.call[g].pc = "idle"
    /\ skins' = [skins EXCEPT !.call[g] =
                    [pc |-> IF skins.selector THEN "rlock" ELSE "default.rlock",
                     op |-> "ApplySelector", sel |-> FALSE]]
    /\ UNCHANGED skinFrame

\* AddSkin, RemoveSkin or WithSelector(sel) is called and calls Lock()
SkinWriterCall(g, op, sel) ==
    /\ skins.call[g].pc = "idle"
    /\ op = "WithSelector" \/ ~sel
    /\ skins' = [skins EXCEPT !.call[g] =
                    [pc |-> "lock", op |-> op, sel |-> sel]]
    /\ UNCHANGED skinFrame

\* skinMgr.lock.RLock() returns: in ApplySelector, then the selector names
\* a skin and GetSkin is called; in GetSkin; in GetDefaultSkin
SkinRLock(g) ==
    LET pc == skins.call[g].pc IN
    /\ pc \in {"rlock", "getskin.rlock", "default.rlock"}
    /\ SkinCanAcquire(g)
    /\ skins' = [skins EXCEPT
            !.lock.r[g] = @ + 1,
            !.call[g].pc = IF pc = "rlock" THEN "getskin.rlock"
                           ELSE IF pc = "getskin.rlock" THEN "getskin.runlock"
                           ELSE "default.runlock"]
    /\ UNCHANGED skinFrame

\* the deferred RUnlock() of GetSkin, of ApplySelector, of GetDefaultSkin
SkinRUnlock(g) ==
    LET pc == skins.call[g].pc IN
    /\ pc \in {"getskin.runlock", "runlock", "default.runlock"}
    /\ skins' = [skins EXCEPT
            !.lock.r[g] = @ - 1,
            !.call[g] = IF pc = "getskin.runlock"
                        THEN [skins.call[g] EXCEPT !.pc = "runlock"]
                        ELSE [pc |-> "idle", op |-> "", sel |-> FALSE]]
    /\ UNCHANGED skinFrame

\* skinMgr.lock.Lock() returns
SkinLock(g) ==
    /\ skins.call[g].pc = "lock"
    /\ SkinCanAcquire(g)
    /\ skins' = [skins EXCEPT !.lock.w = g, !.call[g].pc = "unlock"]
    /\ UNCHANGED skinFrame

\* the write of skins or selector and the deferred Unlock()
SkinUnlock(g) ==
    /\ skins.call[g].pc = "unlock"
    /\ skins' = [skins EXCEPT
            !.selector = IF skins.call[g].op = "WithSelector"
                         THEN skins.call[g].sel ELSE @,
            !.lock.w = 0,
            !.call[g] = [pc |-> "idle", op |-> "", sel |-> FALSE]]
    /\ UNCHANGED skinFrame

\* -------------------------------------------------------- specification
Next ==
    \/ Tick
    \/ \E i \in IDs : CallNewSession(i)
    \/ \E o \in Objs : Release(o)
    \/ \E o \in Objs : SetInvalid(o)
    \/ \E o \in Objs, k \in Keys, v \in Vals : CallSetValue(o, k, v)
    \/ \E o \in Objs, k \in Keys : CallGetValue(o, k)
    \/ \E o \in Objs, k \in Keys : CallGetAsFlashValue(o, k)
    \/ \E o \in Objs, t \in Timeouts : MemSave(o, t)
    \/ \E i \in IDs : MemGet(i)
    \/ MemGCCollect
    \/ MemGCDelete
    \/ \E o \in Objs : FileSaveInvalid(o)
    \/ \E o \in Objs, t \in Timeouts : FileSaveSerialize(o, t)
    \/ \E o \in Objs : FileSaveRemove(o)
    \/ \E o \in Objs : FileSaveOpen(o)
    \/ \E o \in Objs : FileSaveWrite(o)
    \/ \E i \in IDs : FileGetStat(i)
    \/ FileGetRead
    \/ FileGCList
    \/ FileGCRead
    \/ FileGCRemove
    \/ \E o \in Objs : RedisSaveInvalid(o)
    \/ \E o \in Objs, t \in Timeouts : RedisSaveSerialize(o, t)
    \/ \E o \in Objs : RedisSaveSet(o)
    \/ \E i \in IDs : RedisGet(i)

Spec == Init /\ [][Next]_vars

\* The Session entity with the store that hands out the stored Session
\* objects themselves; the history records the Session calls as well.
InitSession == Init /\ kind = "mem"

NextSession ==
    \/ \E i \in IDs : CallNewSession(i)
    \/ \E o \in Objs : Release(o)
    \/ \E o \in Objs : SetInvalid(o)
    \/ \E o \in Objs, k \in Keys, v \in Vals : WatchSetValue(o, k, v)
    \/ \E o \in Objs, k \in Keys : WatchGetValue(o, k)
    \/ \E o \in Objs, k \in Keys : WatchGetAsFlashValue(o, k)
    \/ \E o \in Objs, t \in Timeouts : MemSave(o, t)
    \/ \E i \in IDs : MemGet(i)

SpecSession == InitSession /\ [][NextSession]_vars

\* The Session methods at the grain of their statements: goroutines that
\* share Session objects call SetValue, GetValue and GetAsFlashValue.
NextLock ==
    \/ \E i \in IDs : CallNewSession(i)
    \/ \E g \in Threads, o \in Objs, k \in Keys, v \in TestVals :
            SessionCall(g, "SetValue", o, k, v)
    \/ \E g \in Threads, o \in Objs, k \in Keys : SessionCall(g, "GetValue", o, k, "")
    \/ \E g \in Threads, o \in Objs, k \in Keys :
            SessionCall(g, "GetAsFlashValue", o, k, "")
    \/ \E g \in Threads : SessionLock(g)
    \/ \E g \in Threads : SessionRead(g)
    \/ \E g \in Threads : SessionWrite(g)
    \/ \E g \in Threads : SessionMarkDirty(g)
    \/ \E g \in Threads : SessionReturn(g)

SpecLock == InitSession /\ [][NextLock]_vars

\* The file and redis stores with a session that carries values of the
\* registered types: it is saved and loaded, and the loaded copies are
\* saved and loaded again; nothing mutates a session.
InitRoundTrip ==
    /\ kind \in {"file", "redis"}
    /\ now = 0
    /\ \E d \in [Keys -> RegisteredVals \cup {NoVal}] :
         obj = [o \in Objs |->
                    IF o = 1
                    THEN [NewSession("id1") EXCEPT !.data = d,
                                                   !.isDirty = (d # EmptyData)]
                    ELSE FreeObj]
    /\ sessions = [i \in StoreIDs |-> NoItem]
    /\ gc = IdleGC
    /\ files = [i \in StoreIDs |-> NoFile]
    /\ redis = [i \in StoreIDs |-> NoKey]
    /\ sv = [o \in Objs |-> IdleSave]
    /\ rd = IdleGet
    /\ saved = [i \in StoreIDs |-> NoSaved]
    /\ last = NoLast
    /\ thr = [g \in Threads |-> IdleThread]
    /\ lk = [o \in Objs |-> NoLock]
    /\ taken = [o \in Objs |-> [k \in Keys |-> NotTaken]]
    /\ rq = [r \in Reqs |-> IdleReq]
    /\ storeLock = NoLock
    /\ run = [g \in Threads |-> IdleRun]
    /\ prior = NoItem
    /\ closing = NotClosing
    /\ carriers = [c \in 1..NumCtx |-> NoCarrier]
    /\ pipe = [r \in Reqs |-> NewRequest(r)]
    /\ cmap = NewConcurrentMap
    /\ skins = NewSkinManager

NextRoundTrip ==
    \/ Tick
    \/ \E o \in Objs : Release(o)
    \/ \E o \in Objs, t \in Timeouts : FileSaveSerialize(o, t)
    \/ \E o \in Objs : FileSaveRemove(o)
    \/ \E o \in Objs : FileSaveOpen(o)
    \/ \E o \in Objs : FileSaveWrite(o)
    \/ \E i \in IDs : FileGetStat(i)
    \/ FileGetRead
    \/ \E o \in Objs, t \in Timeouts : RedisSaveSerialize(o, t)
    \/ \E o \in Objs : RedisSaveSet(o)
    \/ \E i \in IDs : RedisGet(i)

SpecRoundTrip == InitRoundTrip /\ [][NextRoundTrip]_vars

\* The stores with a storage that can fail on the delete of an invalidated
\* session.
NextFaults ==
    \/ \E i \in IDs : CallNewSession(i)
    \/ \E o \in Objs : Release(o)
    \/ \E o \in Objs : SetInvalid(o)
    \/ \E o \in Objs, t \in Timeouts : MemSave(o, t)
    \/ \E i \in IDs : MemGet(i)
    \/ \E o \in Objs : FileSaveInvalid(o)
    \/ \E o \in Objs : FileSaveInvalidRemoveFails(o)
    \/ \E o \in Objs, t \in Timeouts : FileSaveSerialize(o, t)
    \/ \E o \in Objs : FileSaveRemove(o)
    \/ \E o \in Objs : FileSaveOpen(o)
    \/ \E o \in Objs : FileSaveWrite(o)
    \/ \E i \in IDs : FileGetStat(i)
    \/ FileGetRead
    \/ \E o \in Objs : RedisSaveInvalid(o)
    \/ \E o \in Objs : RedisSaveInvalidDelFails(o)
    \/ \E o \in Objs, t \in Timeouts : RedisSaveSerialize(o, t)
    \/ \E o \in Objs : RedisSaveSet(o)
    \/ \E i \in IDs : RedisGet(i)

SpecFaults == Init /\ [][NextFaults]_vars

\* The session middleware over the in-memory store: requests arrive with or
\* without a session cookie, the pipeline works on the request's session.
NextMiddleware ==
    \/ Tick
    \/ \E r \in Reqs, c \in StoreIDs \cup {NoCookie} : MwArrive(r, c)
    \/ \E r \in Reqs : MwGet(r)
    \/ \E r \in Reqs : MwGetFails(r)
    \/ \E r \in Reqs : MwSession(r)
    \/ \E r \in Reqs : MwAttach(r)
    \/ \E r \in Reqs : MwInvoke(r)
    \/ \E r \in Reqs, k \in Keys, v \in Vals : MwHandlerSetValue(r, k, v)
    \/ \E r \in Reqs, k \in Keys : MwHandlerFlash(r, k)
    \/ \E r \in Reqs : MwHandlerInvalidate(r)
    \/ \E r \in Reqs : MwPipelineReturns(r)
    \/ \E r \in Reqs, t \in Timeouts : MwDeferred(r, t)
    \/ \E r \in Reqs : MwFinish(r)

SpecMiddleware == InitSession /\ [][NextMiddleware]_vars

\* The in-memory store alone, with the history of what a Save found.
NextInMem ==
    \/ Tick
    \/ \E i \in IDs : CallNewSession(i)
    \/ \E o \in Objs : Release(o)
    \/ \E o \in Objs : SetInvalid(o)
    \/ \E o \in Objs, t \in Timeouts : WatchMemSave(o, t)
    \/ \E i \in IDs : MemGet(i)
    \/ MemGCCollect
    \/ MemGCDelete

SpecInMem == InitSession /\ [][NextInMem]_vars

\* The file store with session files of several IDs and its GC sweep.
NextFileGC ==
    \/ Tick
    \/ \E i \in StoreIDs : CallNewSession(i)
    \/ \E o \in Objs : Release(o)
    \/ \E o \in Objs, t \in Timeouts : FileSaveSerialize(o, t)
    \/ \E o \in Objs : FileSaveRemove(o)
    \/ \E o \in Objs : FileSaveOpen(o)
    \/ \E o \in Objs : FileSaveWrite(o)
    \/ FileGCList
    \/ FileGCRead
    \/ FileGCRemove

InitFile == Init /\ kind = "file"

SpecFileGC == InitFile /\ [][NextFileGC]_vars

\* The in-memory and the file store with their GC goroutine at work: the
\* ticker keeps firing, so a sweep starts again and again, whatever calls
\* are in progress; a sweep that started and a Save that was called run on
\* to their end.
NextGC ==
    \/ Tick
    \/ \E i \in IDs : CallNewSession(i)
    \/ \E o \in Objs : Release(o)
    \/ \E o \in Objs, t \in Timeouts : MemSave(o, t)
    \/ MemGCCollect
    \/ MemGCDelete
    \/ \E o \in Objs, t \in Timeouts : FileSaveSerialize(o, t)
    \/ \E o \in Objs : FileSaveRemove(o)
    \/ \E o \in Objs : FileSaveOpen(o)
    \/ \E o \in Objs : FileSaveWrite(o)
    \/ FileGCList
    \/ FileGCRead
    \/ FileGCRemove

\* case <-store.gcTicker.C: store.doGC()
FairGC ==
    /\ SF_vars(MemGCCollect)
    /\ WF_vars(MemGCDelete)
    /\ SF_vars(FileGCList)
    /\ WF_vars(FileGCRead)
    /\ WF_vars(FileGCRemove)
    /\ \A o \in Objs :
         WF_vars(FileSaveRemove(o) \/ FileSaveOpen(o) \/ FileSaveWrite(o))

InitGC == Init /\ kind \in {"mem", "file"}

SpecGC == InitGC /\ [][NextGC]_vars /\ FairGC

\* The in-memory and the file store with their GC goroutine and Close: a
\* sweep that started runs on to its end, a Close that was called runs on
\* when it can; between two sweeps the GC goroutine waits in its select,
\* so a sender on exitChan gets through.
NextClose ==
    \/ Tick
    \/ \E i \in IDs : CallNewSession(i)
    \/ \E o \in Objs, t \in Timeouts : MemSave(o, t)
    \/ MemGCCollect
    \/ MemGCDelete
    \/ \E o \in Objs, t \in Timeouts : FileSaveSerialize(o, t)
    \/ \E o \in Objs : FileSaveRemove(o)
    \/ \E o \in Objs : FileSaveOpen(o)
    \/ \E o \in Objs : FileSaveWrite(o)
    \/ FileGCList
    \/ FileGCRead
    \/ FileGCRemove
    \/ \E g \in Threads : CloseCall(g)
    \/ \E g \in Threads : CloseSend(g)
    \/ \E g \in Threads : CloseChan(g)

FairClose ==
    /\ WF_vars(MemGCDelete)
    /\ WF_vars(FileGCRead)
    /\ WF_vars(FileGCRemove)
    /\ \A g \in Threads : SF_vars(CloseSend(g)) /\ WF_vars(CloseChan(g))

SpecClose == InitGC /\ [][NextClose]_vars /\ FairClose

\* The context carrier by itself: contexts are wrapped again and again,
\* values are set on the carriers at hand; n tells the values apart.
NextCarrier ==
    \/ \E r \in Reqs, attach \in BOOLEAN : ExtentContext(r, attach)
    \/ \E r \in Reqs, k \in {"TraceActivityID", "UserSession"}, n \in 1..2 :
            WithValue(r, k, <<k, n>>)

SpecCarrier == InitSession /\ [][NextCarrier]_vars

\* Requests going through the server's pipeline concurrently.
NextPipeline ==
    \/ \E r \in Reqs : LoggingServe(r)
    \/ \E r \in Reqs, storeFails \in BOOLEAN : SessionServe(r, storeFails)
    \/ \E r \in Reqs, anonymous \in BOOLEAN, authenticated \in BOOLEAN,
          access \in BOOLEAN :
            SecurityServe(r, anonymous, authenticated, access)
    \/ \E r \in Reqs : RouterServe(r)

SpecPipeline == InitSession /\ [][NextPipeline]_vars

\* Goroutines calling GetOrCompute, Get and Delete on one ConcurrentMap.
NextMap ==
    \/ \E g \in Threads, k \in MapKeys : MapCall(g, k)
    \/ \E g \in Threads : MapRLock(g)
    \/ \E g \in Threads : MapRUnlock(g)
    \/ \E g \in Threads : MapLock(g)
    \/ \E g \in Threads : MapCompute(g)
    \/ \E g \in Threads : MapUnlock(g)
    \/ \E g \in Threads, k \in MapKeys : MapGet(g, k)
    \/ \E g \in Threads, k \in MapKeys : MapDelete(g, k)

SpecMap == InitSession /\ [][NextMap]_vars

\* Goroutines calling ApplySelector (the requests the server routes) and
\* AddSkin, RemoveSkin, WithSelector on one SkinManager.
NextSkin ==
    \/ \E g \in Threads : SkinApplySelector(g)
    \/ \E g \in Threads, sel \in BOOLEAN,
          op \in {"AddSkin", "RemoveSkin", "WithSelector"} :
            SkinWriterCall(g, op, sel)
    \/ \E g \in Threads : SkinRLock(g)
    \/ \E g \in Threads : SkinRUnlock(g)
    \/ \E g \in Threads : SkinLock(g)
    \/ \E g \in Threads : SkinUnlock(g)

SpecSkin == InitSession /\ [][NextSkin]_vars

\* The locking of the sessions and of the stores: goroutines make calls on
\* shared Session objects, each call is its lock operations and accesses.
NextSync ==
    \/ \E i \in IDs : CallNewSession(i)
    \/ \E g \in Threads, op \in SessionOps \cup {"Save", "Get", "doGC", "FileSave"},
          o \in Objs : SyncCall(g, op, o)
    \/ \E g \in Threads : SyncAcquire(g)
    \/ \E g \in Threads : SyncRelease(g)
    \/ \E g \in Threads : SyncAccess(g)

SpecSync == Init /\ [][NextSync]_vars

\* ------------------------------------------------------------- claims
NoExpiration == 0 - 1

\* the expiration the store holds for an ID: sessionItem.expiration,
\* fileSessionItem.Expiration of the file as decoded, the key's expiry
StoredExpiration(id) ==
    IF kind = "mem"
    THEN (IF sessions[id].ok THEN sessions[id].expiration ELSE NoExpiration)
    ELSE IF kind = "file"
    THEN (IF Decodable(files[id]) THEN FirstItem(files[id]).Expiration ELSE NoExpiration)
    ELSE (IF redis[id].ok THEN redis[id].expireAt ELSE NoExpiration)

\* no Save of a valid session for the ID is between its call and its return
NoSaveInFlight(id) == \A o \in Objs : sv[o].pc = "idle" \/ sv[o].id # id

\* C1: in every store a Get that finds the stored expiration before the
\* current time returns (nil, ErrSessionNotFound), also while the entry is
\* still physically there.
C1_GetNeverReturnsExpired ==
    (last.op = "Get" /\ last.flag) =>
        (last.res = "ErrSessionNotFound" /\ last.o = 0)

C1_Witness ==
    /\ last.op = "Get"
    /\ last.flag
    /\ last.res = "ErrSessionNotFound"
    /\ StoredExpiration(last.id) # NoExpiration

\* C2: after a Save of a valid session returned nil at time t with a
\* timeout, a Get of the ID issued after that return and before t + timeout
\* succeeds, as long as no Save with IsValid = false came in between.
C2_GetSucceedsBeforeTimeout ==
    (/\ last.op = "Get"
     /\ ~last.aux
     /\ saved[last.id].state = "valid"
     /\ Before(now, saved[last.id].deadline)) =>
        last.res = "nil"

C4_InvalidationIsTerminal ==
    (last.op = "Get" /\ ~last.aux /\ saved[last.id].everInvalid) =>
        last.res = "ErrSessionNotFound"

\* C5: no Get returns a Session whose IsValid is false.
C5_GetNeverReturnsInvalid ==
    (last.op = "Get" /\ last.res = "nil") => obj[last.o].IsValid

\* C6: when a Save of a valid session returns nil, the expiration the store
\* holds for the ID is the time of that Save plus its timeout (stated for
\* the IDs no Save with IsValid = false was ever made for).
C6_SaveSetsExpiration ==
    (last.op = "Save" /\ last.flag /\ last.res = "nil"
        /\ ~saved[last.id].everInvalid) =>
        StoredExpiration(last.id) = saved[last.id].deadline

\* C7: in the in-memory store a Save of a valid session, for an ID whose
\* stored entry holds a valid Session and is one Get still returns, leaves
\* the stored Session object in place.
C7_SaveKeepsStoredSession ==
    [][\A i \in StoreIDs :
        (/\ kind = "mem"
         /\ last'.op = "Save" /\ last'.flag /\ last'.id = i
         /\ ~MemGetMisses(sessions[i])
         /\ obj[sessions[i].session].IsValid) =>
            (sessions'[i].ok /\ sessions'[i].session = sessions[i].session)]_vars

\* C8: the session a successful Get returns reports NeedSave() = false
\* when Get returns.
C8_GetReturnsCleanSession ==
    (last.op = "Get" /\ last.res = "nil") => ~NeedSave(last.o)

C8_Witness ==
    /\ kind = "mem"
    /\ last.op = "Get"
    /\ last.res = "nil"
    /\ Existed(last.o, "key1")
    /\ ~NeedSave(last.o)

\* C9: a call to SetValue or GetAsFlashValue leaves the session with
\* NeedSave() = true, whether or not the key was there.
C9_MutatorsMarkDirty ==
    (last.op \in {"SetValue", "GetAsFlashValue"}) => NeedSave(last.o)

C9_Witness ==
    /\ last.op = "GetAsFlashValue"
    /\ ~last.flag
    /\ NeedSave(last.o)

\* C10: NeedSave() is true only if the session was mutated since its last
\* successful Save: when a Save of a valid session returns nil and nothing
\* mutated the session after Save took its data, NeedSave() is false.
C10_SaveClearsNeedSave ==
    (last.op = "Save" /\ last.flag /\ last.res = "nil" /\ ~last.aux) =>
        ~NeedSave(last.o)

\* a goroutine in GetAsFlashValue / SetValue / GetValue that has read the key
Flashing(g) == thr[g].op = "GetAsFlashValue" /\ thr[g].pc \in {"dirty", "return"}
Setting(g) == thr[g].op = "SetValue" /\ thr[g].pc \in {"dirty", "return"}
Getting(g) == thr[g].op = "GetValue" /\ thr[g].pc = "return"

\* what a method returns for a key that held v when the call got the lock
ReturnsOld(g) ==
    /\ thr[g].rok = (thr[g].snap # NoVal)
    /\ thr[g].rv = IF thr[g].snap # NoVal THEN thr[g].snap ELSE "nil"

\* C11: GetAsFlashValue reads and removes the key in one atomic step: it
\* returns (value, true) for a present key and the key is absent afterwards,
\* (nil, false) for an absent one; of the calls made for one written value
\* of a key exactly one returns existed = true.
C11_FlashIsAtomic ==
    /\ \A g \in Threads :
        Flashing(g) => (ReturnsOld(g) /\ ~Existed(thr[g].o, thr[g].key))
    /\ \A o \in Objs, k \in Keys :
        /\ Cardinality(taken[o][k].by) <= 1
        /\ (taken[o][k].written /\ ~Existed(o, k)) =>
                Cardinality(taken[o][k].by) = 1

C11_Witness ==
    \E g, h \in Threads :
        /\ Flashing(g) /\ thr[g].rok /\ thr[g].rv \in TestVals
        /\ thr[h].op = "GetAsFlashValue" /\ thr[h].pc = "lock"
        /\ thr[h].o = thr[g].o /\ thr[h].key = thr[g].key

\* C12: a GetAsFlashValue for an absent key returns (nil, false) and leaves
\* the value mapping and the dirty flag of the session as they were.
C12_FlashOnAbsentKeyChangesNothing ==
    [][\A g \in Threads :
        (/\ thr[g].op = "GetAsFlashValue"
         /\ thr[g].pc \in {"write", "dirty"}
         /\ ~thr[g].rok
         /\ thr'[g].pc # thr[g].pc) =>
            (thr[g].rv = "nil" /\ obj'[thr[g].o] = obj[thr[g].o])]_vars

\* C13: SetValue stores the value under the key and returns the previous
\* value with true, or (nil, false) if there was none; a GetValue returns
\* the value the key holds with true, so the value of the last SetValue
\* when no write came in between.
C13_SetValueStoresAndReturnsOld ==
    \A g \in Threads :
        /\ Setting(g) =>
                (ReturnsOld(g) /\ obj[thr[g].o].data[thr[g].key] = thr[g].value)
        /\ Getting(g) =>
                (/\ ReturnsOld(g)
                 /\ thr[g].rok = Existed(thr[g].o, thr[g].key)
                 /\ thr[g].rok => thr[g].rv = obj[thr[g].o].data[thr[g].key])

C13_Witness ==
    \E g, h \in Threads :
        /\ Getting(g) /\ thr[g].rok /\ thr[g].rv = "&TestObj{123,abc}"
        /\ thr[h].op = "SetValue" /\ thr[h].pc = "idle"
        /\ thr[h].o = thr[g].o /\ thr[h].key = thr[g].key
        /\ thr[h].value = "&TestObj{123,abc}" /\ thr[h].rok /\ thr[h].rv = "value1"

\* C14: GetValue is read-only: no step of a GetValue call changes a
\* session's value mapping or dirty flag.
C14_GetValueIsReadOnly ==
    [][\A g \in Threads :
        (thr'[g].op = "GetValue" /\ thr'[g] # thr[g]) => obj' = obj]_vars

C14_Witness ==
    \E g \in Threads :
        /\ Getting(g) /\ thr[g].rok
        /\ obj[thr[g].o].data[thr[g].key] = thr[g].rv

C16_GetFailsOnlyWithNotFound ==
    last.op = "Get" => last.res \in {"nil", "ErrSessionNotFound"}

\* C17: a Save of a session with IsValid = false returns nil in every
\* store, also when the delete in the storage fails.
C17_InvalidSaveNeverFails ==
    (last.op = "Save" /\ ~last.flag) => last.res = "nil"

\* C18: when the middleware has attached the session and invokes the
\* pipeline, the request's context holds a session under SessionKey: the one
\* store.Get returned if it returned one; otherwise a new session that is
\* valid, has no values and has a newly generated ID, which is also the
\* session cookie set on the response. After another error of Get the
\* pipeline is not invoked.
C18_PipelineGetsSession ==
    \A r \in Reqs :
        rq[r].pc = "attached" =>
            /\ rq[r].err # "error"
            /\ rq[r].ctx # 0
            /\ obj[rq[r].ctx].alloc
            /\ IF rq[r].got # 0
               THEN rq[r].ctx = rq[r].got /\ rq[r].setCookie = NoCookie
               ELSE /\ obj[rq[r].ctx] = NewSession(rq[r].setCookie)
                    /\ rq[r].setCookie \in FreshIDs
                    /\ ~sessions[rq[r].setCookie].ok
                    /\ \A p \in Objs \ {rq[r].ctx} :
                            obj[p].alloc => obj[p].ID # rq[r].setCookie

C18_Witness ==
    \E r \in Reqs :
        /\ rq[r].pc = "attached"
        /\ rq[r].cookie # NoCookie
        /\ rq[r].err = "ErrSessionNotFound"
        /\ rq[r].ctx # 0
        /\ rq[r].setCookie = obj[rq[r].ctx].ID

\* C19: the function the middleware defers calls store.Save for the
\* request's session exactly when session.NeedSave() is true at that
\* point, and nothing else in the middleware calls Save.
C19_SaveIffNeedSave ==
    [][/\ \A r \in Reqs :
            (rq[r].pc = "deferred" /\ rq'[r].pc = "done") =>
                ((last'.op = "Save" /\ last'.o = rq[r].session)
                    <=> NeedSave(rq[r].session))
       /\ last'.op = "Save" =>
            \E r \in Reqs :
                /\ rq[r].pc = "deferred" /\ rq'[r].pc = "done"
                /\ rq[r].session = last'.o]_vars

C19_Witness ==
    \E r \in Reqs :
        /\ rq[r].pc = "done" /\ rq[r].status = 200
        /\ last.op = "Save" /\ last.o = rq[r].session
        /\ NeedSave(rq[r].session)

\* C20: the sweep of the in-memory store deletes only expired entries: an
\* entry it deletes under the write lock has its expiration before the
\* current time, so a session saved between the two phases stays.
C20_GCDeletesOnlyExpired ==
    [][(kind = "mem" /\ gc.pc = "delete" /\ gc'.pc = "idle") =>
        \A i \in StoreIDs :
            (sessions[i].ok /\ ~sessions'[i].ok) =>
                Before(sessions[i].expiration, now)]_vars


\* C21: a request whose pipeline mutated the request's session (SetValue or
\* GetAsFlashValue) ends with the middleware's store.Save of that session,
\* also when another request gets the same session from the in-memory
\* store meanwhile.
C21_MutatedSessionIsSaved ==
    [][\A r \in Reqs :
         (rq[r].pc = "deferred" /\ rq'[r].pc = "done" /\ rq[r].mutated) =>
            (last'.op = "Save" /\ last'.o = rq[r].session)]_vars

\* C22: a Get that returns while a Save of a valid session for the same ID
\* is running, the ID being stored and unexpired by the Saves that
\* returned before, returns a session: not ErrSessionNotFound and no
\* decode error.
C22_SaveNeverExposesPartialWrite ==
    (/\ last.op = "Get"
     /\ saved[last.id].state = "valid"
     /\ ~saved[last.id].everInvalid
     /\ ~Before(saved[last.id].deadline, now)
     /\ gc.pc = "idle"
     /\ \E o \in Objs : sv[o].pc # "idle" /\ sv[o].id = last.id)
        => last.res = "nil"

\* C23: in the file store, once the Saves of valid sessions for an ID have
\* returned, the session file holds exactly one encoded item and nothing
\* appended to an earlier write.
C23_FileHoldsOneItem ==
    \A i \in StoreIDs :
        (kind = "file" /\ NoSaveInFlight(i) /\ files[i].exists) =>
            Len(files[i].content) = 1

\* the lock of its session is held by g for writing
HoldsLock(g) == lk[run[g].o].w = g

\* the next statement of g reads or writes the value mapping or the dirty
\* flag of its session
Accesses(g, how, what) ==
    Inside(g) /\ Stmt(g)[1] \in how /\ Stmt(g)[2] = what

\* C24: every read of a session's value mapping or dirty flag is made with
\* the session's lock held (for reading or writing), every write with it
\* held for writing, and no access overlaps a write of another goroutine.
C24_SessionAccessesAreLocked ==
    \A g \in Threads, what \in {"data", "isDirty"} :
        /\ Accesses(g, {"read"}, what) => (HoldsLock(g) \/ g \in lk[run[g].o].r)
        /\ Accesses(g, {"write"}, what) =>
              /\ HoldsLock(g)
              /\ \A h \in Threads \ {g} :
                    ~(Accesses(h, {"read", "write"}, what) /\ run[h].o = run[g].o)

\* the next statement of g is a Lock() / RLock() that cannot return now
Blocked(g) ==
    Inside(g) /\ Stmt(g)[1] \in {"Lock", "RLock"} /\ ~CanAcquire(g)

\* C25: the store and session operations never deadlock: while goroutines
\* are inside calls one of them can take its next step; a goroutine that
\* asks for the store lock holds no session lock, and one that asks for a
\* session lock holds no session lock (the file store's Save has released
\* the read lock of Serialize before it takes the write lock).
C25_NoDeadlock ==
    /\ (\E g \in Threads : Inside(g)) =>
            (\E g \in Threads : Inside(g) /\ ~Blocked(g))
    /\ \A g \in Threads :
            (Inside(g) /\ Stmt(g)[1] \in {"Lock", "RLock"}) =>
                \A o \in Objs : lk[o].w # g /\ g \notin lk[o].r

\* a SetValue waits for the lock a Save of the file store holds on its session
C25_Witness ==
    \E g \in Threads, h \in Threads :
        /\ run[g].op = "FileSave" /\ HoldsLock(g)
        /\ run[h].op = "SetValue" /\ run[h].o = run[g].o /\ Blocked(h)

\* C26: in the in-memory store a GC sweep excludes the Gets and the Saves
\* for its whole duration: no Get or Save executes between the start and
\* the end of one sweep.
C26_SweepExcludesGetAndSave ==
    [][(kind = "mem" /\ gc.pc # "idle") => last'.op \notin {"Save", "Get"}]_vars

\* the last step was an in-memory Save of a valid session that found no
\* entry for the ID, an expired one, or one holding an invalidated Session
SavedOverStaleEntry ==
    /\ kind = "mem"
    /\ last.op = "Save"
    /\ last.flag
    /\ \/ ~prior.ok
       \/ Before(prior.expiration, now)
       \/ ~obj[prior.session].IsValid

\* C27: such a Save replaces the slot with the passed Session object and
\* the expiration now + timeout, so that a following Get returns the passed
\* object.
C27_SaveReplacesStaleEntry ==
    SavedOverStaleEntry =>
        /\ sessions[last.id] = [ok |-> TRUE, session |-> last.o,
                                expiration |-> saved[last.id].deadline]
        /\ ~MemGetMisses(sessions[last.id])

\* a Save replaced an expired entry that held another Session object
C27_Witness ==
    /\ SavedOverStaleEntry
    /\ prior.ok
    /\ Before(prior.expiration, now)
    /\ prior.session # last.o
    /\ obj[prior.session].IsValid

\* C28: the in-memory Get and Save agree on whether an entry is expired: at
\* every time, the instant equal to the expiration included, Get returns
\* an entry that holds a valid session exactly when Save treats it as an
\* existing unexpired entry and only extends it.
C28_GetAndSaveAgreeOnExpiry ==
    \A i \in StoreIDs :
        (kind = "mem" /\ sessions[i].ok /\ obj[sessions[i].session].IsValid) =>
            (~MemGetMisses(sessions[i]) <=> MemSaveKeepsItem(sessions[i]))

\* C29: the sweep of the file store removes a file only after it read and
\* decoded it as an item whose expiration is before the sweep's now; it
\* removes no other file, a file it could not decode is not removed by
\* it, and it ends only after the last listed entry.
C29_FileGCDeletesOnlyDecodedExpired ==
    [][/\ (gc.pc = "scan" /\ gc'.pc = "remove") =>
            /\ Decodable(files[gc'.name])
            /\ Before(FirstItem(files[gc'.name]).Expiration, gc.now)
       /\ (gc.pc = "scan" /\ gc' # gc) => files' = files
       /\ (gc.pc = "remove" /\ gc' # gc) =>
            /\ gc.name \notin gc.unread
            /\ \A i \in StoreIDs \ {gc.name} : files'[i] = files[i]
       /\ (gc.pc = "scan" /\ gc'.pc = "idle") => Cardinality(gc.files) = 1
      ]_vars

\* the sweep met a file it could not decode, left it in place and goes on
\* with the remaining entries
C29_Witness ==
    /\ kind = "file"
    /\ gc.pc = "scan"
    /\ gc.files # {}
    /\ \E n \in gc.unread : files[n].exists

\* the store holds an entry for the ID whose expiration has passed
Expired(id) ==
    IF kind = "mem"
    THEN sessions[id].ok /\ Before(sessions[id].expiration, now)
    ELSE Decodable(files[id]) /\ Before(FirstItem(files[id]).Expiration, now)

\* C30: in the in-memory and the file store, with the GC timer firing, an
\* entry that has expired is eventually removed by a sweep, unless it is
\* saved again; a sweep that starts takes up every entry expired by then,
\* so the entry goes with the sweep after the one it expired during.
C30_ExpiredEntryIsRemoved ==
    /\ \A i \in IDs : Expired(i) ~> ~Expired(i)
    /\ [][\A i \in IDs :
            (gc.pc = "idle" /\ gc'.pc # "idle" /\ Expired(i)) =>
                (i \in gc'.keysToRemove \/ i \in gc'.files)]_vars

\* a sweep found an expired entry and is about to remove it
C30_Witness ==
    \E i \in IDs :
        /\ Expired(i)
        /\ \/ kind = "mem" /\ gc.pc = "delete" /\ i \in gc.keysToRemove
           \/ kind = "file" /\ gc.pc = "remove" /\ gc.name = i

\* a Close call has returned
Closed == \E g \in Threads : closing.pc[g] = "done"

\* C31: the store has one GC goroutine; once Close has returned, that
\* goroutine has received the stop signal and returned, and no sweep
\* starts afterwards.
C31_NoSweepAfterClose ==
    /\ [](Closed => gc.pc = "exited")
    /\ [][gc.pc = "exited" => gc' = gc]_vars

\* Close has returned on a store that holds an expired entry no sweep
\* will remove any more
C31_Witness ==
    Closed /\ \E i \in IDs : Expired(i)

\* C32: a Close call returns, and without a panic if it is the only one:
\* every call that waits at its send gets on, a call panics only if
\* another goroutine called Close too, and the send gets through only
\* while the GC goroutine is in its select, that is after a sweep in
\* progress has finished.
C32_SingleCloseReturns ==
    /\ \A g \in Threads :
          closing.pc[g] = "send" ~> closing.pc[g] \in {"done", "panic"}
    /\ [](\A g \in Threads :
            closing.pc[g] = "panic" =>
                \E h \in Threads \ {g} : closing.pc[h] # "idle")
    /\ [][\A g \in Threads :
            (closing.pc[g] = "send" /\ closing'.pc[g] = "close") =>
                (gc.pc = "idle" /\ gc'.pc = "exited")]_vars

\* the only Close call waits at its send while a sweep is in progress
C32_Witness ==
    \E g \in Threads :
        /\ closing.pc[g] = "send"
        /\ \A h \in Threads \ {g} : closing.pc[h] = "idle"
        /\ gc.pc \notin {"idle", "exited"}

\* C33: of two Close calls on one store exactly one completes normally and
\* the other panics at its send on the closed channel.
C33_SecondClosePanics ==
    /\ [](\A g \in Threads : closing.pc[g] = "panic" => closing.at[g] = "send")
    /\ [](Cardinality({g \in Threads : closing.pc[g] = "done"}) <= 1)
    /\ \A g \in Threads : \A h \in Threads \ {g} :
          (closing.pc[g] = "done" /\ closing.pc[h] # "idle")
              ~> (closing.pc[g] = "done" /\ closing.pc[h] = "panic")

\* two concurrent Close calls: one has returned, the other is still in its
\* send
C33_Witness ==
    \E g \in Threads, h \in Threads :
        closing.pc[g] = "done" /\ closing.pc[h] = "send"

\* C34: Get changes neither the set of stored entries nor an entry's
\* expiration: a step of a Get leaves the store's map, the session files
\* and the redis keys as they are.
C34_GetLeavesStoreAlone ==
    [][(last'.op = "Get" \/ (rd.pc = "idle" /\ rd'.pc # "idle")) =>
            (sessions' = sessions /\ files' = files /\ redis' = redis)]_vars

\* a Get returned a stored session at the last instant before its expiry
C34_Witness ==
    /\ last.op = "Get"
    /\ last.res = "nil"
    /\ now > 0
    /\ StoredExpiration(last.id) = now

RECURSIVE Chain(_)
\* the layers of a context from the outermost carrier in, the base last
Chain(c) == IF c < 0 THEN <<c>> ELSE <<c>> \o Chain(carriers[c].parent)

\* the layers of a context that hold the key, as positions of its chain
Holders(c, key) ==
    {i \in 1..Len(Chain(c)) :
        IF Chain(c)[i] < 0 THEN BaseValue(Chain(c)[i], key) # Nil
        ELSE key \in CtxKeys /\ carriers[Chain(c)[i]].values[key] # Nil}

\* C35: Value(key) on a carrier is the value of the outermost layer that
\* holds the key, the base context being the innermost layer; it is nil if
\* no layer holds it.
C35_ValueIsOutermostHolder ==
    \A c \in 1..NumCtx, key \in CtxKeys \cup {"http-server"} :
        carriers[c].made =>
            Value(c, key) =
                IF Holders(c, key) = {} THEN Nil
                ELSE LET i == CHOOSE x \in Holders(c, key) :
                                  \A y \in Holders(c, key) : x <= y
                         l == Chain(c)[i]
                     IN IF l < 0 THEN BaseValue(l, key) ELSE carriers[l].values[key]

\* three layers: the outermost does not hold a key the two below hold with
\* different values
C35_Witness ==
    \E c \in 1..NumCtx, key \in CtxKeys :
        /\ carriers[c].made
        /\ Len(Chain(c)) = 4
        /\ Holders(c, key) = {2, 3}
        /\ carriers[Chain(c)[2]].values[key] # carriers[Chain(c)[3]].values[key]

\* C36: withValue(key, value) changes the overlay of the carrier it is
\* called on in place and returns that carrier: nothing but that key of
\* that carrier changes, and Value(key) gives the new value through the
\* carrier and through every context that wraps it without holding the key
\* in a layer above it.
C36_WithValueIsInPlace ==
    [][\A r \in Reqs, key \in CtxKeys :
         (last'.op = "withValue" /\ last'.o = r /\ last'.id = key) =>
            LET c == pipe[r].ctx
            IN /\ pipe'[r].ret = c
               /\ carriers'[c].values[key] # Nil
               /\ carriers' = [carriers EXCEPT
                                  ![c].values[key] = carriers'[c].values[key]]
               /\ \A d \in 1..NumCtx :
                     (/\ carriers[d].made
                      /\ \E i \in 1..Len(Chain(d)) :
                            /\ Chain(d)[i] = c
                            /\ \A j \in Holders(d, key) : j >= i)
                        => Value(d, key)' = carriers'[c].values[key]]_vars

\* a carrier wrapped by another one got a new value for a key it held: the
\* wrapping context shows the new value
C36_Witness ==
    \E r \in Reqs, d \in 1..NumCtx :
        /\ last.op = "withValue" /\ last.o = r
        /\ carriers[d].made
        /\ carriers[d].parent = pipe[r].ret
        /\ pipe[r].ret = pipe[r].ctx
        /\ Value(d, last.id) = carriers[pipe[r].ret].values[last.id]
        /\ Value(d, last.id) = <<last.id, 2>>

\* C37: in the server's pipeline the overlay is write-once per key: a step
\* that changes a key of a carrier finds the key unset, so each of the trace
\* id, the session and the user principal is written at most once to a
\* request's carrier and a value once attached is never overwritten.
C37_WriteOncePerKey ==
    [][\A c \in 1..NumCtx, k \in CtxKeys :
         (carriers[c].made /\ carriers'[c].values[k] # carriers[c].values[k])
            => carriers[c].values[k] = Nil]_vars

\* a request went through the three handlers and its carrier holds the
\* three keys, each with the value of the handler that attaches it
C37_Witness ==
    \E r \in Reqs :
        /\ pipe[r].pc = "done"
        /\ pipe[r].ctx > 0
        /\ carriers[pipe[r].ctx].values =
              [k \in CtxKeys |->
                 IF k = "TraceActivityID" THEN <<"logging", r>>
                 ELSE IF k = "UserSession" THEN <<"session", r>>
                 ELSE <<"security", r>>]

\* C38: each request gets a carrier of its own: the contexts of two requests
\* share no carrier, and whatever Value gives through a request's context
\* was attached while handling that request or comes from the request's own
\* base context.
C38_NoCarrierSharedAcrossRequests ==
    \A q \in Reqs :
        /\ \A p \in Reqs \ {q} :
              pipe[q].ctx > 0 => pipe[p].ctx # pipe[q].ctx
        /\ \A k \in CtxKeys :
              LET v == Value(pipe[q].ctx, k)
              IN v # Nil => v[2] = q
        /\ Value(pipe[q].ctx, "http-server") = <<"http-server", q>>

\* two requests are in the pipeline at once, both with a session attached
\* and one with a principal
C38_Witness ==
    \E q \in Reqs : \E p \in Reqs \ {q} :
        /\ pipe[q].pc = "router" /\ pipe[p].pc = "security"
        /\ Value(pipe[q].ctx, "UserPrincipal") = <<"security", q>>
        /\ Value(pipe[q].ctx, "UserSession") = <<"session", q>>
        /\ Value(pipe[p].ctx, "UserSession") = <<"session", p>>
        /\ Value(pipe[p].ctx, "UserPrincipal") = Nil

\* C39: GetOrCompute returns the existing value without calling the
\* generator when the key is present; otherwise it stores and returns the
\* generated value, which a following Get returns; when calls race on an
\* absent key and no Delete intervenes, the generator runs exactly once and
\* every caller returns the one stored value.
C39_GetOrComputeGeneratesOnce ==
    [][\A g \in Threads, k \in MapKeys :
         LET c == cmap.call[g] IN
         ~cmap'.touched[k] =>
            /\ cmap'.generated[k] <= 1
            /\ cmap'.generated[k] > cmap.generated[k] => cmap.values[k] = Nil
            /\ (c.pc = "rlock" /\ c.key = k /\ cmap.values[k] # Nil
                    /\ cmap'.call[g].pc = "runlock")
                  => cmap'.call[g].ok /\ cmap'.call[g].value = cmap.values[k]
            /\ (c.pc = "runlock" /\ c.key = k /\ c.ok)
                  => (cmap'.call[g] # c =>
                        /\ cmap'.call[g].pc = "idle"
                        /\ cmap'.generated = cmap.generated)
            /\ (c.pc # "idle" /\ c.key = k /\ cmap'.call[g].pc = "idle")
                  => /\ cmap'.call[g].ret = <<k, 1>>
                     /\ cmap'.values[k] = <<k, 1>>
                     /\ cmap'.generated[k] = 1
            /\ (c.pc = "idle" /\ cmap'.call[g].pc = "idle"
                    /\ cmap'.call[g].key = k /\ cmap'.call[g] # c)
                  => /\ cmap'.call[g].ret = cmap.values[k]
                     /\ cmap.generated[k] = 1 =>
                            cmap'.call[g].ret = <<k, 1>>]_vars

\* two calls raced on an absent key: one has returned the generated value,
\* the other, which had found the key absent, has found that value under
\* the write lock and is about to return it
C39_Witness ==
    \E k \in MapKeys : \E g \in Threads : \E h \in Threads \ {g} :
        /\ ~cmap.touched[k]
        /\ cmap.generated[k] = 1
        /\ cmap.call[g].pc = "idle" /\ cmap.call[g].ret = <<k, 1>>
        /\ cmap.call[h].pc = "unlock" /\ cmap.call[h].key = k
        /\ ~cmap.call[h].ok
        /\ cmap.call[h].value = <<k, 1>>

\* C40: ApplySelector never deadlocks on the manager's lock when it runs
\* concurrently with AddSkin, RemoveSkin or WithSelector: no goroutine
\* inside ApplySelector waits in an RLock() behind a writer that waits in
\* Lock() for a read lock this goroutine holds.
C40_ApplySelectorNeverDeadlocks ==
    \A g \in Threads :
        ~(/\ skins.call[g].op = "ApplySelector"
          /\ skins.call[g].pc = "getskin.rlock"
          /\ skins.lock.r[g] > 0
          /\ SkinWriterWaits)

====
